---------------------------- MODULE Spec2Model ----------------------------
(***************************************************************************)
(* Model of the retrieval evaluation pipeline of QPP/src/sample/inscit:    *)
(*   module/retrieval_evaluator.py            (RetrievalEvaluator)         *)
(*   module/conversation_retrieval_processor.py                            *)
(*                                  (ConversationRetrievalProcessor)       *)
(*                                                                         *)
(* Python values are represented as follows.                               *)
(*   str (a query)   : a sequence of one-character strings                 *)
(*   str (an id)     : a TLA+ string                                       *)
(*   list            : a sequence                                          *)
(*   dict            : a sequence of [key, val] items in insertion order   *)
(*   float           : a record [num, den] (den > 0), the quotient num/den *)
(*   a call's outcome: [exc |-> "" or the exception raised, val |-> value] *)
(* The discount 1/np.log2(i+2) is kept in fixed point (six decimals), so   *)
(* that DCG and IDCG are integers and nDCG is the quotient of the two.     *)
(* Floating-point addition and the fixed-point sums are both monotone in   *)
(* every term, and both add the terms in the order of the code's loops.    *)
(***************************************************************************)
EXTENDS Integers, Sequences, FiniteSets, TLC

VARIABLES
    retrieved_evidence, \* argument: the ranked list of retrieved documents
    gold_evidence,      \* argument: the gold evidence list of one label
    k,                  \* argument: the cutoff of the last single-metric call
    k_values,           \* argument: the cutoffs of the last calculate_all_metrics call
    query,              \* argument: the query string of _preprocess_query
    op,                 \* the function called last ("" before any call)
    result,             \* the outcome of the last call
    result2,            \* the outcome of _preprocess_query on the previous result
    turn,               \* argument: the turn given to _process_single_turn
    calculate_ndcg_arg, \* argument: the calculate_ndcg flag
    data,               \* the dataset held in memory (json.load's result, DataLoader.data)
    pc,                 \* where a driver stands in its loops
    calls,              \* the calls made to the external backend so far, with their outcomes
    files,              \* the JSON files on disk, by role
    log,                \* the logger's error lines
    index_range         \* arguments: start_index and end_index of process_data

\* the variables of the metric functions and of _preprocess_query
function_vars == <<retrieved_evidence, gold_evidence, k, query, result2>>

\* the variables of the turn processor, the drivers and the aggregator
pipeline_vars == <<turn, calculate_ndcg_arg, data, pc, calls, files, log, index_range>>

vars == <<retrieved_evidence, gold_evidence, k, k_values, query, op, result, result2,
          turn, calculate_ndcg_arg, data, pc, calls, files, log, index_range>>

-----------------------------------------------------------------------------
(* Bounds of the model *)

\* longest retrieved list
MaxLen == 3
\* longest gold evidence list
MaxGold == 2
\* largest cutoff k
MaxK == 3
\* most whitespace-separated tokens in a query
MaxTokens == 3
\* most hits the searcher returns for a query
MaxHits == 2
\* most turns of a dialogue
MaxTurns == 2

-----------------------------------------------------------------------------
(* Python values *)

\* Records of one set are compared field by field in the order their field names
\* first occur in the module: exc, then key, then val, so that an exception
\* decides before a value does and a dict key before the value stored under it.
Raised(r) == r.exc # ""

\* the entry of a dict: dicts are the sequences of their entries in insertion order
Entry(key, val) == [key |-> key, val |-> val]

\* Optional[int]: None, or Some(n) for the integer n
None == <<>>

Some(n) == <<n>>

IntVal(x) == x[1]

NoResult == [exc |-> "", val |-> <<>>]

Return(v) == [exc |-> "", val |-> v]

Raise(e) == [exc |-> e, val |-> <<>>]

\* the float 0.0
Zero == [num |-> 0, den |-> 1]

\* a / b of two numbers: true division, ZeroDivisionError when b = 0
TrueDiv(a, b) == IF b = 0 THEN Raise("ZeroDivisionError")
                 ELSE Return([num |-> a, den |-> b])

Min(a, b) == IF a <= b THEN a ELSE b

Max(a, b) == IF a >= b THEN a ELSE b

\* s[:n] of a list
SliceTo(s, n) ==
    LET stop == IF n < 0 THEN Max(Len(s) + n, 0) ELSE Min(n, Len(s))
    IN  SubSeq(s, 1, stop)

\* d[key] = val on a dict: an existing key keeps its place
DictSet(d, key, val) ==
    IF \E i \in 1..Len(d) : d[i].key = key
    THEN [d EXCEPT ![CHOOSE i \in 1..Len(d) : d[i].key = key] = [key |-> key, val |-> val]]
    ELSE Append(d, [key |-> key, val |-> val])

DictKeys(d) == {d[i].key : i \in 1..Len(d)}

DictGet(d, key) == d[CHOOSE i \in 1..Len(d) : d[i].key = key].val

-----------------------------------------------------------------------------
(* RetrievalEvaluator: retrieval_evaluator.py *)

\* the loop of _get_gold_ids over gold_evidence[i..], gold_ids so far
RECURSIVE GoldIdsLoop(_, _, _)
GoldIdsLoop(gold, i, gold_ids) ==
    IF i > Len(gold) THEN gold_ids
    ELSE LET evidence == gold[i]
         IN  IF evidence.type = "dict" /\ "passage_id" \in DOMAIN evidence.fields
             THEN GoldIdsLoop(gold, i + 1, gold_ids \cup {evidence.fields.passage_id})
             ELSE IF evidence.type = "str"
             THEN GoldIdsLoop(gold, i + 1, gold_ids \cup {evidence.value})
             ELSE GoldIdsLoop(gold, i + 1, gold_ids)

\* faulty variant: only the dict form is accepted, bare strings are skipped
_get_gold_ids_dicts_only(gold) ==
    {gold[i].fields.passage_id :
        i \in {j \in 1..Len(gold) : /\ gold[j].type = "dict"
                                    /\ "passage_id" \in DOMAIN gold[j].fields}}

_get_gold_ids(gold) == GoldIdsLoop(gold, 1, {})

\* the counting loop of precision and recall over docs[i..]
RECURSIVE RelevantCountLoop(_, _, _, _)
RelevantCountLoop(docs, gold_ids, i, relevant_count) ==
    IF i > Len(docs) THEN relevant_count
    ELSE RelevantCountLoop(docs, gold_ids, i + 1,
             IF docs[i].passage_id \in gold_ids THEN relevant_count + 1
             ELSE relevant_count)

\* faulty variant: precision divided by the length of the retrieved list instead of k
calculate_precision_over_retrieved(retrieved, gold, kopt) ==
    LET kk == IF kopt = None THEN Len(retrieved) ELSE IntVal(kopt)
        gold_ids == _get_gold_ids(gold)
        relevant_count == RelevantCountLoop(SliceTo(retrieved, kk), gold_ids, 1, 0)
    IN  IF kk > 0 /\ Len(retrieved) > 0 THEN TrueDiv(relevant_count, Len(retrieved))
        ELSE Return(Zero)

calculate_precision_at_k(retrieved, gold, kopt) ==
    LET kk == IF kopt = None THEN Len(retrieved) ELSE IntVal(kopt)
        gold_ids == _get_gold_ids(gold)
        relevant_count == RelevantCountLoop(SliceTo(retrieved, kk), gold_ids, 1, 0)
    IN  IF kk > 0 THEN TrueDiv(relevant_count, kk) ELSE Return(Zero)

\* faulty variant: recall without the guard on an empty gold id set
calculate_recall_unguarded(retrieved, gold, kopt) ==
    LET kk == IF kopt = None THEN Len(retrieved) ELSE IntVal(kopt)
        gold_ids == _get_gold_ids(gold)
        relevant_count == RelevantCountLoop(SliceTo(retrieved, kk), gold_ids, 1, 0)
    IN  TrueDiv(relevant_count, Cardinality(gold_ids))

\* faulty variant: recall divided by k, as precision is
calculate_recall_over_k(retrieved, gold, kopt) ==
    LET kk == IF kopt = None THEN Len(retrieved) ELSE IntVal(kopt)
        gold_ids == _get_gold_ids(gold)
        relevant_count == RelevantCountLoop(SliceTo(retrieved, kk), gold_ids, 1, 0)
    IN  IF Cardinality(gold_ids) = 0 \/ kk <= 0 THEN Return(Zero)
        ELSE TrueDiv(relevant_count, kk)

\* faulty variant: recall counts the gold documents of the whole retrieved list
calculate_recall_uncut(retrieved, gold, kopt) ==
    LET gold_ids == _get_gold_ids(gold)
        relevant_count == RelevantCountLoop(retrieved, gold_ids, 1, 0)
    IN  IF Cardinality(gold_ids) = 0 THEN Return(Zero)
        ELSE TrueDiv(relevant_count, Cardinality(gold_ids))

calculate_recall_at_k(retrieved, gold, kopt) ==
    LET kk == IF kopt = None THEN Len(retrieved) ELSE IntVal(kopt)
        gold_ids == _get_gold_ids(gold)
        relevant_count == RelevantCountLoop(SliceTo(retrieved, kk), gold_ids, 1, 0)
    IN  IF Cardinality(gold_ids) = 0 THEN Return(Zero)
        ELSE TrueDiv(relevant_count, Cardinality(gold_ids))

\* 1 / np.log2(i + 2) for i = 0, 1, ..., in millionths
Log2Discount == <<1000000, 630930, 500000, 430677, 386853, 356207,
                  333333, 315465, 301030, 289065, 278943, 270238>>

Discount(i) == Log2Discount[i + 1]

\* faulty variant: the DCG discount taken at the 1-based rank, log2(i + 3)
RECURSIVE DcgLoopFromRankOne(_, _, _, _)
DcgLoopFromRankOne(docs, gold_ids, i, dcg) ==
    IF i >= Len(docs) THEN dcg
    ELSE LET relevance == IF docs[i + 1].passage_id \in gold_ids THEN 1 ELSE 0
         IN  DcgLoopFromRankOne(docs, gold_ids, i + 1, dcg + relevance * Discount(i + 1))

\* the DCG loop: enumerate(retrieved_evidence[:k]) from the 0-based index i
RECURSIVE DcgLoop(_, _, _, _)
DcgLoop(docs, gold_ids, i, dcg) ==
    IF i >= Len(docs) THEN dcg
    ELSE LET relevance == IF docs[i + 1].passage_id \in gold_ids THEN 1 ELSE 0
         IN  DcgLoop(docs, gold_ids, i + 1, dcg + relevance * Discount(i))

\* faulty variant: the IDCG discount taken at the 1-based rank, log2(i + 3)
RECURSIVE IdcgLoopFromRankOne(_, _, _)
IdcgLoopFromRankOne(num_gold, i, idcg) ==
    IF i >= num_gold THEN idcg
    ELSE IdcgLoopFromRankOne(num_gold, i + 1, idcg + Discount(i + 1))

\* the IDCG loop: for i in range(num_gold)
RECURSIVE IdcgLoop(_, _, _)
IdcgLoop(num_gold, i, idcg) ==
    IF i >= num_gold THEN idcg
    ELSE IdcgLoop(num_gold, i + 1, idcg + Discount(i))

\* faulty variant: the ideal ranking not cut at k (num_gold = len(gold_ids))
calculate_ndcg_uncut_ideal(retrieved, gold, kopt) ==
    LET kk == IF kopt = None THEN Len(retrieved) ELSE IntVal(kopt)
        gold_ids == _get_gold_ids(gold)
        dcg == DcgLoop(SliceTo(retrieved, kk), gold_ids, 0, 0)
        num_gold == Cardinality(gold_ids)
        idcg == IdcgLoop(num_gold, 0, 0)
    IN  IF idcg = 0 THEN Return(Zero) ELSE TrueDiv(dcg, idcg)

calculate_ndcg(retrieved, gold, kopt) ==
    LET kk == IF kopt = None THEN Len(retrieved) ELSE IntVal(kopt)
        gold_ids == _get_gold_ids(gold)
        dcg == DcgLoop(SliceTo(retrieved, kk), gold_ids, 0, 0)
        num_gold == Min(Cardinality(gold_ids), kk)
        idcg == IdcgLoop(num_gold, 0, 0)
    IN  IF idcg = 0 THEN Return(Zero) ELSE TrueDiv(dcg, idcg)

\* f'{metric}@{k}'
MetricKey(metric, kv) == metric \o "@" \o ToString(kv)

\* faulty variant: the cutoff is not passed on, every metric is taken over the full list
RECURSIVE AllMetricsLoopNoCutoff(_, _, _, _, _, _)
AllMetricsLoopNoCutoff(metric, retrieved, gold, ks, i, results) ==
    IF results.exc # "" \/ i > Len(ks) THEN results
    ELSE LET score == CASE metric = "ndcg" -> calculate_ndcg(retrieved, gold, None)
                        [] metric = "precision" ->
                               calculate_precision_at_k(retrieved, gold, None)
                        [] metric = "recall" ->
                               calculate_recall_at_k(retrieved, gold, None)
         IN  AllMetricsLoopNoCutoff(metric, retrieved, gold, ks, i + 1,
                 IF score.exc # "" THEN score
                 ELSE Return(DictSet(results.val, MetricKey(metric, ks[i]), score.val)))

\* one "for k in k_values" loop of calculate_all_metrics, from k_values[i];
\* results is the outcome so far (an exception of a call propagates)
RECURSIVE AllMetricsLoop(_, _, _, _, _, _)
AllMetricsLoop(metric, retrieved, gold, ks, i, results) ==
    IF results.exc # "" \/ i > Len(ks) THEN results
    ELSE LET score == CASE metric = "ndcg" -> calculate_ndcg(retrieved, gold, Some(ks[i]))
                        [] metric = "precision" ->
                               calculate_precision_at_k(retrieved, gold, Some(ks[i]))
                        [] metric = "recall" ->
                               calculate_recall_at_k(retrieved, gold, Some(ks[i]))
         IN  AllMetricsLoop(metric, retrieved, gold, ks, i + 1,
                 IF score.exc # "" THEN score
                 ELSE Return(DictSet(results.val, MetricKey(metric, ks[i]), score.val)))

calculate_all_metrics(retrieved, gold, ks) ==
    LET after_ndcg == AllMetricsLoop("ndcg", retrieved, gold, ks, 1, Return(<<>>))
        after_precision == AllMetricsLoop("precision", retrieved, gold, ks, 1, after_ndcg)
    IN  AllMetricsLoop("recall", retrieved, gold, ks, 1, after_precision)

-----------------------------------------------------------------------------
(* Inputs of the metric functions *)

\* passage ids of the index
PassageIds == {"A", "B", "C"}

\* passage ids named by gold evidence
GoldPassageIds == {"A", "B"}

\* a retrieved document; the metric functions read only doc['passage_id']
Docs == [passage_id : PassageIds]

RetrievedLists == UNION {[1..n -> Docs] : n \in 0..MaxLen}

\* a gold evidence entry: a bare string, a dict with passage_id, a dict without
GoldEntries ==
    {[type |-> "str", value |-> id] : id \in GoldPassageIds}
    \cup {[type |-> "dict", fields |-> [passage_id |-> id]] : id \in GoldPassageIds}
    \cup {[type |-> "dict", fields |-> [title |-> "t"]]}

GoldLists == UNION {[1..n -> GoldEntries] : n \in 0..MaxGold}

Cutoffs == {None} \cup {Some(n) : n \in 0..MaxK}

\* k_values lists: up to two cutoffs, repeats allowed
KValueLists == {<<>>} \cup {<<a>> : a \in 0..MaxK}
               \cup {<<a, b>> : a \in 0..MaxK, b \in 0..MaxK}

-----------------------------------------------------------------------------
(* The metric functions: one call on each input *)

InitMetrics ==
    /\ retrieved_evidence \in RetrievedLists
    /\ gold_evidence \in GoldLists
    /\ k = None
    /\ k_values = <<>>
    /\ query = <<>>
    /\ op = ""
    /\ result = NoResult
    /\ result2 = NoResult
    /\ turn = <<>>
    /\ calculate_ndcg_arg = FALSE
    /\ data = <<>>
    /\ pc = ""
    /\ calls = <<>>
    /\ files = <<>>
    /\ log = <<>>
    /\ index_range = <<>>

CallPrecision ==
    \E kopt \in Cutoffs :
        /\ op = ""
        /\ k' = kopt
        /\ op' = "calculate_precision_at_k"
        /\ result' = calculate_precision_at_k(retrieved_evidence, gold_evidence, kopt)
        /\ UNCHANGED <<retrieved_evidence, gold_evidence, k_values, query, result2>>
        /\ UNCHANGED pipeline_vars

CallRecall ==
    \E kopt \in Cutoffs :
        /\ op = ""
        /\ k' = kopt
        /\ op' = "calculate_recall_at_k"
        /\ result' = calculate_recall_at_k(retrieved_evidence, gold_evidence, kopt)
        /\ UNCHANGED <<retrieved_evidence, gold_evidence, k_values, query, result2>>
        /\ UNCHANGED pipeline_vars

CallNdcg ==
    \E kopt \in Cutoffs :
        /\ op = ""
        /\ k' = kopt
        /\ op' = "calculate_ndcg"
        /\ result' = calculate_ndcg(retrieved_evidence, gold_evidence, kopt)
        /\ UNCHANGED <<retrieved_evidence, gold_evidence, k_values, query, result2>>
        /\ UNCHANGED pipeline_vars

CallAllMetrics ==
    \E ks \in KValueLists :
        /\ op = ""
        /\ k_values' = ks
        /\ op' = "calculate_all_metrics"
        /\ result' = calculate_all_metrics(retrieved_evidence, gold_evidence, ks)
        /\ UNCHANGED <<retrieved_evidence, gold_evidence, k, query, result2>>
        /\ UNCHANGED pipeline_vars

NextMetrics == CallPrecision \/ CallRecall \/ CallNdcg \/ CallAllMetrics

SpecMetrics == InitMetrics /\ [][NextMetrics]_vars

\* the retrieved lists a search can return: up to MaxHits documents
RetrievedHitLists == UNION {[1..n -> Docs] : n \in 0..MaxHits}

\* the metric functions called on search results
InitGoldForms ==
    /\ retrieved_evidence \in RetrievedHitLists
    /\ gold_evidence \in GoldLists
    /\ k = None
    /\ k_values = <<>>
    /\ query = <<>>
    /\ op = ""
    /\ result = NoResult
    /\ result2 = NoResult
    /\ turn = <<>>
    /\ calculate_ndcg_arg = FALSE
    /\ data = <<>>
    /\ pc = ""
    /\ calls = <<>>
    /\ files = <<>>
    /\ log = <<>>
    /\ index_range = <<>>

SpecGoldForms == InitGoldForms /\ [][NextMetrics]_vars

-----------------------------------------------------------------------------
(* ConversationRetrievalProcessor._preprocess_query:                       *)
(* conversation_retrieval_processor.py. A str is a sequence of characters. *)

\* the characters str.strip() and str.split() treat as whitespace
Whitespace == {" ", "\t", "\n", "\r"}

UpperLetters == <<"A", "B", "C", "D", "E", "F", "G", "H", "I", "J", "K", "L", "M", "N", "O", "P", "Q", "R", "S", "T", "U", "V", "W", "X", "Y", "Z">>

LowerLetters == <<"a", "b", "c", "d", "e", "f", "g", "h", "i", "j", "k", "l", "m", "n", "o", "p", "q", "r", "s", "t", "u", "v", "w", "x", "y", "z">>

\* c.lower() of one character
LowerChar(c) ==
    IF \E i \in 1..Len(UpperLetters) : UpperLetters[i] = c
    THEN LowerLetters[CHOOSE i \in 1..Len(UpperLetters) : UpperLetters[i] = c]
    ELSE c

\* s.lower()
Lower(s) == [i \in 1..Len(s) |-> LowerChar(s[i])]

\* s.lstrip(chars), s.rstrip(chars), s.strip(chars)
RECURSIVE LStrip(_, _)
LStrip(s, chars) ==
    IF s # <<>> /\ Head(s) \in chars THEN LStrip(Tail(s), chars) ELSE s

RECURSIVE RStrip(_, _)
RStrip(s, chars) ==
    IF s # <<>> /\ s[Len(s)] \in chars THEN RStrip(SubSeq(s, 1, Len(s) - 1), chars) ELSE s

Strip(s, chars) == RStrip(LStrip(s, chars), chars)

\* s.split(): the maximal runs of characters that are not whitespace;
\* word is the run being read at s[i], words the runs completed
RECURSIVE SplitLoop(_, _, _, _)
SplitLoop(s, i, word, words) ==
    IF i > Len(s) THEN (IF word = <<>> THEN words ELSE Append(words, word))
    ELSE IF s[i] \in Whitespace
    THEN SplitLoop(s, i + 1, <<>>, IF word = <<>> THEN words ELSE Append(words, word))
    ELSE SplitLoop(s, i + 1, Append(word, s[i]), words)

Split(s) == SplitLoop(s, 1, <<>>, <<>>)

\* sep.join(words)
RECURSIVE Join(_, _)
Join(sep, words) ==
    IF words = <<>> THEN <<>>
    ELSE IF Len(words) = 1 THEN words[1]
    ELSE words[1] \o sep \o Join(sep, Tail(words))

question_words ==
    {<<"w", "h", "a", "t">>,
     <<"w", "h", "e", "n">>,
     <<"w", "h", "e", "r", "e">>,
     <<"w", "h", "o">>,
     <<"w", "h", "y">>,
     <<"h", "o", "w">>,
     <<"w", "h", "i", "c", "h">>,
     <<"c", "a", "n">>,
     <<"c", "o", "u", "l", "d">>,
     <<"w", "o", "u", "l", "d">>,
     <<"w", "i", "l", "l">>,
     <<"d", "o">>,
     <<"d", "o", "e", "s">>,
     <<"d", "i", "d">>,
     <<"i", "s">>,
     <<"a", "r", "e">>,
     <<"w", "a", "s">>,
     <<"w", "e", "r", "e">>}

\* the characters of word.strip('.,!?;:')
Punctuation == {".", ",", "!", "?", ";", ":"}

\* the loop "for word in words" from words[i], filtered_words so far
RECURSIVE FilterLoop(_, _, _)
FilterLoop(words, i, filtered_words) ==
    IF i > Len(words) THEN filtered_words
    ELSE IF words[i] \in question_words
    THEN FilterLoop(words, i + 1, filtered_words)
    ELSE IF Len(words[i]) <= 2
    THEN FilterLoop(words, i + 1, filtered_words)
    ELSE LET word == Strip(words[i], Punctuation)
         IN  FilterLoop(words, i + 1,
                 IF word # <<>> THEN Append(filtered_words, word) ELSE filtered_words)

\* the filtered_words of _preprocess_query(q)
FilteredWords(q) == FilterLoop(Split(Lower(Strip(q, Whitespace))), 1, <<>>)

\* faulty variant: the keyword query returned however few keywords there are
_preprocess_query_no_fallback(q) ==
    Join(<<" ">>, FilteredWords(q))

_preprocess_query(q) ==
    LET processed_query == Strip(q, Whitespace)
        filtered_words == FilteredWords(q)
        keyword_query == Join(<<" ">>, filtered_words)
    IN  IF Len(filtered_words) < 2 THEN processed_query ELSE keyword_query

-----------------------------------------------------------------------------
(* Inputs of _preprocess_query *)

\* the tokens queries are made of: stop words, short words, capitals,
\* punctuation before and after
Vocabulary ==
    {<<"h", "o", "w">>,
     <<"H", "o", "w">>,
     <<"h", "o", "w", "?">>,
     <<"i", "s">>,
     <<"a", "b", ".">>,
     <<"c", "a", "t">>,
     <<"C", "a", "t", ",">>,
     <<".", ".", ".">>,
     <<"d", "o", "g", "s">>}

TokenLists == UNION {[1..n -> Vocabulary] : n \in 0..MaxTokens}

\* whitespace before the first token, between tokens, after the last token
LeadingSpace == {<<>>, <<" ">>}

TokenGaps == {<<" ">>, <<" ", "\t">>}

TrailingSpace == {<<>>, <<"\n">>}

Queries ==
    {lead \o Join(gap, toks) \o trail :
        lead \in LeadingSpace, gap \in TokenGaps, trail \in TrailingSpace,
        toks \in TokenLists}

-----------------------------------------------------------------------------
(* _preprocess_query: one call on each query, then one more on its result *)

InitQuery ==
    /\ retrieved_evidence = <<>>
    /\ gold_evidence = <<>>
    /\ k = None
    /\ k_values = <<>>
    /\ query \in Queries
    /\ op = ""
    /\ result = NoResult
    /\ result2 = NoResult
    /\ turn = <<>>
    /\ calculate_ndcg_arg = FALSE
    /\ data = <<>>
    /\ pc = ""
    /\ calls = <<>>
    /\ files = <<>>
    /\ log = <<>>
    /\ index_range = <<>>

CallPreprocess ==
    /\ op = ""
    /\ op' = "_preprocess_query"
    /\ result' = Return(_preprocess_query(query))
    /\ UNCHANGED <<retrieved_evidence, gold_evidence, k, k_values, query, result2>>
    /\ UNCHANGED pipeline_vars

CallPreprocessAgain ==
    /\ op = "_preprocess_query"
    /\ op' = "_preprocess_query twice"
    /\ result2' = Return(_preprocess_query(result.val))
    /\ UNCHANGED <<retrieved_evidence, gold_evidence, k, k_values, query, result>>
    /\ UNCHANGED pipeline_vars

NextQuery == CallPreprocess \/ CallPreprocessAgain

SpecQuery == InitQuery /\ [][NextQuery]_vars

-----------------------------------------------------------------------------
(* LuceneRetriever: lucene_retriever.py *)

\* the document the index stores under a passage id, doc.raw() parsed as JSON;
\* the stored titles hold no [SEP] and are not blank
StoredDoc(docid) == [contents |-> "text of " \o docid, title |-> "title of " \o docid]

\* faulty variant: every result dict also carries its 1-based rank
search_with_rank(hits) ==
    [i \in 1..Len(hits) |->
        LET hit == hits[i]
        IN  [passage_id |-> hit.docid,
             passage_text |-> StoredDoc(hit.docid).contents,
             passage_titles |-> <<StoredDoc(hit.docid).title>>,
             score |-> hit.score,
             rank |-> i]]

\* LuceneRetriever.search, from the hits the searcher returned for the query:
\* one result dict per hit, in hit order
search(hits) ==
    [i \in 1..Len(hits) |->
        LET hit == hits[i]
        IN  [passage_id |-> hit.docid,
             passage_text |-> StoredDoc(hit.docid).contents,
             passage_titles |-> <<StoredDoc(hit.docid).title>>,
             score |-> hit.score]]

-----------------------------------------------------------------------------
(* ConversationRetrievalProcessor, the turn processor:
   conversation_retrieval_processor.py *)

\* key in d
HasKey(d, key) == key \in DictKeys(d)

\* the query key _process_turns passes on
query_key == "resolvedQuery"

\* faulty variant: the results are added to the evidence the turn already has
_create_new_turn_structure_keeping(t, search_results, qkey) ==
    LET with_query == IF HasKey(t, "query")
                      THEN DictSet(<<>>, "query", DictGet(t, "query"))
                      ELSE <<>>
        with_resolved == IF HasKey(t, qkey)
                         THEN DictSet(with_query, "resolvedQuery", DictGet(t, qkey))
                         ELSE with_query
        earlier == IF HasKey(t, "retrieved_evidence")
                   THEN DictGet(t, "retrieved_evidence")
                   ELSE <<>>
        with_evidence == DictSet(with_resolved, "retrieved_evidence",
                                 earlier \o search_results)
    IN  IF HasKey(t, "labels")
        THEN DictSet(with_evidence, "labels", DictGet(t, "labels"))
        ELSE with_evidence

\* faulty variant: the new turn is a copy of the turn with the results added
_create_new_turn_structure_copy(t, search_results, qkey) ==
    LET with_evidence == DictSet(t, "retrieved_evidence", search_results)
    IN  IF HasKey(t, "labels")
        THEN DictSet(with_evidence, "labels", DictGet(t, "labels"))
        ELSE with_evidence

_create_new_turn_structure(t, search_results, qkey) ==
    LET with_query == IF HasKey(t, "query")
                      THEN DictSet(<<>>, "query", DictGet(t, "query"))
                      ELSE <<>>
        with_resolved == IF HasKey(t, qkey)
                         THEN DictSet(with_query, "resolvedQuery", DictGet(t, qkey))
                         ELSE with_query
        with_evidence == DictSet(with_resolved, "retrieved_evidence", search_results)
    IN  IF HasKey(t, "labels")
        THEN DictSet(with_evidence, "labels", DictGet(t, "labels"))
        ELSE with_evidence

\* for metric_name, score in metrics.items(): label[metric_name] = score
RECURSIVE MergeMetricsLoop(_, _, _)
MergeMetricsLoop(label, metrics, i) ==
    IF i > Len(metrics) THEN label
    ELSE MergeMetricsLoop(DictSet(label, metrics[i].key, metrics[i].val), metrics, i + 1)

\* faulty variant: labels without evidence are scored against no gold evidence
RECURSIVE MetricsForLabelsLoopAll(_, _, _, _)
MetricsForLabelsLoopAll(labels, search_results, ks, i) ==
    IF labels.exc # "" \/ i > Len(labels.val) THEN labels
    ELSE LET label == labels.val[i]
             gold == IF HasKey(label, "evidence") THEN DictGet(label, "evidence") ELSE <<>>
             metrics == calculate_all_metrics(search_results, gold, ks)
         IN  MetricsForLabelsLoopAll(
                 IF metrics.exc # "" THEN metrics
                 ELSE Return([labels.val EXCEPT ![i] = MergeMetricsLoop(label, metrics.val, 1)]),
                 search_results, ks, i + 1)

\* the loop of _calculate_metrics_for_labels from labels[i]; labels is the outcome
\* so far: the list with its dicts as mutated in place, or the exception raised
RECURSIVE MetricsForLabelsLoop(_, _, _, _)
MetricsForLabelsLoop(labels, search_results, ks, i) ==
    IF labels.exc # "" \/ i > Len(labels.val) THEN labels
    ELSE LET label == labels.val[i]
         IN  IF ~HasKey(label, "evidence")
             THEN MetricsForLabelsLoop(labels, search_results, ks, i + 1)
             ELSE LET metrics == calculate_all_metrics(search_results,
                                     DictGet(label, "evidence"), ks)
                  IN  MetricsForLabelsLoop(
                          IF metrics.exc # "" THEN metrics
                          ELSE Return([labels.val EXCEPT
                                           ![i] = MergeMetricsLoop(label, metrics.val, 1)]),
                          search_results, ks, i + 1)

_calculate_metrics_for_labels(labels, search_results, ks) ==
    MetricsForLabelsLoop(Return(labels), search_results, ks, 1)

\* top_k of the search call
TopK == 10

\* faulty variant: a turn without the query key is searched with the empty query
_process_single_turn_unguarded(t, qkey, ks, calc, answer) ==
    LET processed_query == _preprocess_query(IF HasKey(t, qkey) THEN DictGet(t, qkey)
                                             ELSE <<>>)
        searches == <<[query |-> processed_query, top_k |-> TopK, answer |-> answer]>>
    IN  IF answer.exc # ""
        THEN [outcome |-> answer, searches |-> searches, turn |-> t]
        ELSE [outcome |-> Return(_create_new_turn_structure(t, answer.val, qkey)),
              searches |-> searches, turn |-> t]

\* faulty variant: the search is made with the raw query
_process_single_turn_raw_query(t, qkey, ks, calc, answer) ==
    IF ~HasKey(t, qkey)
    THEN [outcome |-> Return(t), searches |-> <<>>, turn |-> t]
    ELSE LET searches == <<[query |-> DictGet(t, qkey), top_k |-> TopK,
                            answer |-> answer]>>
         IN  IF answer.exc # ""
             THEN [outcome |-> answer, searches |-> searches, turn |-> t]
             ELSE [outcome |-> Return(_create_new_turn_structure(t, answer.val, qkey)),
                   searches |-> searches, turn |-> t]

\* _process_single_turn, answer being the outcome of self.retriever.search:
\* outcome is what the call returns or raises, searches the calls it made to the
\* retriever, turn the argument after the call (new_turn['labels'] is
\* turn['labels'], whose dicts _calculate_metrics_for_labels mutates)
_process_single_turn(t, qkey, ks, calc, answer) ==
    IF ~HasKey(t, qkey)
    THEN [outcome |-> Return(t), searches |-> <<>>, turn |-> t]
    ELSE LET q == DictGet(t, qkey)
             processed_query == _preprocess_query(q)
             searches == <<[query |-> processed_query, top_k |-> TopK,
                            answer |-> answer]>>
         IN  IF answer.exc # ""
             THEN [outcome |-> answer, searches |-> searches, turn |-> t]
             ELSE LET search_results == answer.val
                      new_turn == _create_new_turn_structure(t, search_results, qkey)
                  IN  IF calc /\ HasKey(new_turn, "labels")
                      THEN LET labels == _calculate_metrics_for_labels(
                                             DictGet(new_turn, "labels"),
                                             search_results, ks)
                           IN  IF labels.exc # ""
                               THEN [outcome |-> labels, searches |-> searches, turn |-> t]
                               ELSE [outcome |->
                                         Return(DictSet(new_turn, "labels", labels.val)),
                                     searches |-> searches,
                                     turn |-> DictSet(t, "labels", labels.val)]
                      ELSE [outcome |-> Return(new_turn), searches |-> searches,
                            turn |-> t]

-----------------------------------------------------------------------------
(* Inputs of the turn processor *)

\* what the searcher may return for a query: up to MaxHits hits, best first
SearcherHits ==
    UNION {{[i \in 1..n |-> [docid |-> ids[i], score |-> [num |-> n + 1 - i, den |-> 1]]] :
               ids \in [1..n -> PassageIds]} : n \in 0..MaxHits}

\* the outcomes of self.retriever.search: a result list, or the backend's error
SearchAnswers == {Return(search(hits)) : hits \in SearcherHits}
                 \cup {Raise("BackendError")}

\* user utterances and resolved queries
Utterances ==
    {<<>>,
     <<" ", "C", "a", "t", ",", " ", "d", "o", "g", "s">>,
     <<"H", "o", "w", " ", "i", "s", " ", "c", "a", "t", "\n">>}

\* the evidence of a label
EvidenceLists ==
    {<<>>,
     <<[type |-> "str", value |-> "A"]>>,
     <<[type |-> "dict", fields |-> [passage_id |-> "B"]], [type |-> "str", value |-> "A"]>>}

\* an optional dict entry: absent, or the key with one of the values
OptionalEntry(key, values) == {<<>>} \cup {<<Entry(key, v)>> : v \in values}

\* a label of the input: a response type and evidence or none; one label has
\* the ndcg@1 of an earlier run
InputLabels ==
    {<<Entry("responseType", "PTKB")>> \o evidence :
        evidence \in OptionalEntry("evidence", EvidenceLists)}
    \cup {<<Entry("responseType", "PTKB"),
            Entry("evidence", <<[type |-> "str", value |-> "A"]>>),
            Entry("ndcg@1", [num |-> 7, den |-> 8])>>}

InputLabelLists == {<<>>} \cup {<<a>> : a \in InputLabels}
                   \cup {<<a, b>> : a \in InputLabels, b \in InputLabels}

\* a turn of the input file
InputTurns ==
    {context \o utterance \o resolved \o labels :
        context \in OptionalEntry("context", {<<Utterances>>}),
        utterance \in OptionalEntry("query", {<<"c", "a", "t">>}),
        resolved \in OptionalEntry("resolvedQuery", Utterances),
        labels \in OptionalEntry("labels", InputLabelLists)}

\* the k_values of a run
RunKValues == {<<1>>, <<1, 3>>}

-----------------------------------------------------------------------------
(* _process_single_turn: one call on each turn *)

InitTurn ==
    /\ retrieved_evidence = <<>>
    /\ gold_evidence = <<>>
    /\ k = None
    /\ k_values = <<>>
    /\ query = <<>>
    /\ op = ""
    /\ result = NoResult
    /\ result2 = NoResult
    /\ turn \in InputTurns
    /\ calculate_ndcg_arg = FALSE
    /\ data = <<>>
    /\ pc = ""
    /\ calls = <<>>
    /\ files = <<>>
    /\ log = <<>>
    /\ index_range = <<>>

CallProcessSingleTurn ==
    /\ op = ""
    /\ op' = "_process_single_turn"
    /\ \E ks \in RunKValues, calc \in BOOLEAN, answer \in SearchAnswers :
        \E call \in {_process_single_turn(turn, query_key, ks, calc, answer)} :
            /\ k_values' = ks
            /\ calculate_ndcg_arg' = calc
            /\ result' = call.outcome
            /\ calls' = calls \o call.searches
            /\ turn' = call.turn
    /\ UNCHANGED function_vars
    /\ UNCHANGED <<data, pc, files, log, index_range>>

NextTurn == CallProcessSingleTurn

SpecTurn == InitTurn /\ [][NextTurn]_vars

-----------------------------------------------------------------------------
(* ConversationRetrievalProcessor, the dataset driver: process_json_file and
   _process_turns, one step per pass of their loops *)

\* a JSON document: its top-level value is a dict (items are its entries, in
\* key order) or a list
JsonDict(items) == [type |-> "dict", items |-> items]

JsonList(items) == [type |-> "list", items |-> items]

\* where process_json_file stands: at is "load", "turns", "done" or "raised";
\* in "turns", dialogue and turn are the indices the two loops have reached
At(at, d, t) == [at |-> at, dialogue |-> d, turn |-> t]

\* the turns of a dialogue, none when it has no turns key
TurnsOf(dialogue) == IF HasKey(dialogue, "turns") THEN DictGet(dialogue, "turns") ELSE <<>>

\* data.items() at index d: the dialogue _process_turns is given
TargetData(d) == data.items[d].val

\* faulty variant: the processed turn is put in front of the turns
SetTurnInFront(doc, d, t, processed_turn) ==
    LET target_data == doc.items[d].val
        turns == DictGet(target_data, "turns")
    IN  [doc EXCEPT !.items[d].val =
            DictSet(target_data, "turns",
                    <<processed_turn>> \o SubSeq(turns, 1, t - 1)
                        \o SubSeq(turns, t + 1, Len(turns)))]

\* target_data['turns'][t] = processed_turn, for the dialogue at index d
SetTurn(doc, d, t, processed_turn) ==
    LET target_data == doc.items[d].val
        turns == DictGet(target_data, "turns")
    IN  [doc EXCEPT !.items[d].val =
            DictSet(target_data, "turns", [turns EXCEPT ![t] = processed_turn])]

\* the outcomes of the searches of a run: no hit, two hits, the backend's error
FileSearchAnswers ==
    {Return(search(<<>>)),
     Return(search(<<[docid |-> "B", score |-> [num |-> 2, den |-> 1]],
                     [docid |-> "A", score |-> [num |-> 1, den |-> 1]]>>)),
     Raise("BackendError")}

\* faulty variant: a file that holds no dict is read as an empty dataset
LoadInputLenient ==
    /\ pc = At("load", 0, 0)
    /\ data' = IF files.input.type # "dict" THEN JsonDict(<<>>) ELSE files.input
    /\ pc' = At("turns", 1, 1)
    /\ UNCHANGED function_vars
    /\ UNCHANGED <<k_values, op, result, turn, calculate_ndcg_arg, calls, files, log,
                   index_range>>

\* json.load, then the isinstance test
LoadInput ==
    /\ pc = At("load", 0, 0)
    /\ data' = files.input
    /\ IF files.input.type # "dict"
       THEN /\ result' = Raise("ValueError")
            /\ pc' = At("raised", 0, 0)
       ELSE /\ pc' = At("turns", 1, 1)
            /\ UNCHANGED result
    /\ UNCHANGED function_vars
    /\ UNCHANGED <<k_values, op, turn, calculate_ndcg_arg, calls, files, log, index_range>>

\* one pass of the loop of _process_turns: the turn is processed and stored at
\* its index; an exception leaves _process_turns and process_json_file
ProcessTurn ==
    /\ pc.at = "turns"
    /\ pc.dialogue <= Len(data.items)
    /\ HasKey(TargetData(pc.dialogue), "turns")
    /\ pc.turn <= Len(DictGet(TargetData(pc.dialogue), "turns"))
    /\ \E answer \in FileSearchAnswers :
        \E call \in {_process_single_turn(
                         DictGet(TargetData(pc.dialogue), "turns")[pc.turn],
                         query_key, k_values, calculate_ndcg_arg, answer)} :
            /\ calls' = calls \o call.searches
            /\ IF Raised(call.outcome)
               THEN /\ result' = call.outcome
                    /\ pc' = At("raised", pc.dialogue, pc.turn)
                    /\ UNCHANGED data
               ELSE /\ data' = SetTurn(data, pc.dialogue, pc.turn, call.outcome.val)
                    /\ pc' = At("turns", pc.dialogue, pc.turn + 1)
                    /\ UNCHANGED result
    /\ UNCHANGED function_vars
    /\ UNCHANGED <<k_values, op, turn, calculate_ndcg_arg, files, log, index_range>>

\* _process_turns returns: the dialogue has no turns, or its loop is over
NextDialogue ==
    /\ pc.at = "turns"
    /\ pc.dialogue <= Len(data.items)
    /\ IF HasKey(TargetData(pc.dialogue), "turns")
       THEN pc.turn > Len(DictGet(TargetData(pc.dialogue), "turns"))
       ELSE TRUE
    /\ pc' = At("turns", pc.dialogue + 1, 1)
    /\ UNCHANGED function_vars
    /\ UNCHANGED <<k_values, op, result, turn, calculate_ndcg_arg, data, calls, files, log, index_range>>

\* faulty variant: the output is written before the loops are through
SaveOutputEarly ==
    /\ pc.at = "turns"
    /\ files' = [files EXCEPT !.output = <<data>>]
    /\ result' = Return("input_retrieved.json")
    /\ pc' = At("done", 0, 0)
    /\ UNCHANGED function_vars
    /\ UNCHANGED <<k_values, op, turn, calculate_ndcg_arg, data, calls, log, index_range>>

\* json.dump of the data into {stem}_retrieved.json, and the return of its path
SaveOutput ==
    /\ pc.at = "turns"
    /\ pc.dialogue > Len(data.items)
    /\ files' = [files EXCEPT !.output = <<data>>]
    /\ result' = Return("input_retrieved.json")
    /\ pc' = At("done", 0, 0)
    /\ UNCHANGED function_vars
    /\ UNCHANGED <<k_values, op, turn, calculate_ndcg_arg, data, calls, log, index_range>>

-----------------------------------------------------------------------------
(* Inputs of process_json_file *)

\* the turns of the input file: without resolvedQuery, with it, with it and
\* a label to score
FileTurns ==
    {<<Entry("query", <<"c", "a", "t">>)>>,
     <<Entry("query", <<"c", "a", "t">>),
       Entry("resolvedQuery", <<" ", "C", "a", "t", ",", " ", "d", "o", "g", "s">>)>>,
     <<Entry("resolvedQuery", <<"H", "o", "w", " ", "i", "s", " ", "c", "a", "t", "\n">>),
       Entry("labels", <<<<Entry("responseType", "PTKB"),
                           Entry("evidence", <<[type |-> "str", value |-> "A"]>>)>>>>)>>}

\* the dialogues of the input file: without turns, or with up to MaxTurns turns
FileDialogues ==
    {<<Entry("domain", "travel")>>}
    \cup UNION {{<<Entry("domain", "travel"), Entry("turns", turns)>> :
                    turns \in [1..n -> FileTurns]} : n \in 0..MaxTurns}

\* the top-level keys of the file, in file order
DialogueKeys == <<"d1", "d2">>

\* the number of turns of the dialogues from items[i]
RECURSIVE CountTurns(_, _)
CountTurns(items, i) ==
    IF i > Len(items) THEN 0
    ELSE Len(TurnsOf(items[i].val)) + CountTurns(items, i + 1)

\* the input files: a dict of dialogues with up to MaxTurns + 1 turns in all,
\* or a list, empty or of one dialogue
JsonDocuments ==
    {doc \in UNION {{JsonDict([i \in 1..n |-> Entry(DialogueKeys[i], dialogues[i])]) :
                        dialogues \in [1..n -> FileDialogues]} :
                       n \in 0..Len(DialogueKeys)} :
        CountTurns(doc.items, 1) <= MaxTurns + 1}
    \cup {JsonList(<<>>),
          JsonList(<<<<Entry("domain", "travel"),
                       Entry("turns", <<<<Entry("resolvedQuery", <<"c", "a", "t">>)>>>>)>>>>)}

InitFile ==
    /\ retrieved_evidence = <<>>
    /\ gold_evidence = <<>>
    /\ k = None
    /\ k_values \in {<<1>>}
    /\ query = <<>>
    /\ op = "process_json_file"
    /\ result = NoResult
    /\ result2 = NoResult
    /\ turn = <<>>
    /\ calculate_ndcg_arg \in BOOLEAN
    /\ data = <<>>
    /\ pc = At("load", 0, 0)
    /\ calls = <<>>
    /\ files \in [input : JsonDocuments, output : {<<>>}]
    /\ log = <<>>
    /\ index_range = <<>>

NextFile == LoadInput \/ ProcessTurn \/ NextDialogue \/ SaveOutput

SpecFile == InitFile /\ [][NextFile]_vars

-----------------------------------------------------------------------------
(* _process_turns as one call on a dialogue, and a second call on the dialogue
   the first one left, against a retrieval backend that answers a query the
   same way each time *)

\* the backends: the outcome of self.retriever.search for each processed query
Backends == [{_preprocess_query(u) : u \in Utterances} -> FileSearchAnswers]

\* target_data['turns'][i] = processed_turn, call being the call of
\* _process_single_turn on the turn; an exception leaves the loop, the turn as
\* the call left it
ProcessTurnsStep(run, i, call) ==
    [outcome |-> IF Raised(call.outcome) THEN call.outcome ELSE run.outcome,
     searches |-> run.searches \o call.searches,
     target_data |-> DictSet(run.target_data, "turns",
                             [DictGet(run.target_data, "turns") EXCEPT
                                 ![i] = IF Raised(call.outcome) THEN call.turn
                                        ELSE call.outcome.val])]

\* the loop of _process_turns from turns[i]; run holds the exception raised,
\* the searches made and target_data as mutated so far; the backend is asked
\* when the turn has the query key
RECURSIVE ProcessTurnsLoop(_, _, _, _, _)
ProcessTurnsLoop(run, ks, calc, backend, i) ==
    IF Raised(run.outcome) \/ i > Len(DictGet(run.target_data, "turns")) THEN run
    ELSE LET t == DictGet(run.target_data, "turns")[i]
         IN  ProcessTurnsLoop(
                 ProcessTurnsStep(run, i,
                     _process_single_turn(t, query_key, ks, calc,
                         backend[IF HasKey(t, query_key)
                                 THEN _preprocess_query(DictGet(t, query_key))
                                 ELSE <<>>])),
                 ks, calc, backend, i + 1)

\* _process_turns: outcome is None or the exception, searches the calls made to
\* the retriever, target_data the dialogue after the call
_process_turns(target_data, ks, calc, backend) ==
    IF ~HasKey(target_data, "turns")
    THEN [outcome |-> Return(None), searches |-> <<>>, target_data |-> target_data]
    ELSE ProcessTurnsLoop([outcome |-> Return(None), searches |-> <<>>,
                           target_data |-> target_data], ks, calc, backend, 1)

\* the dialogues: without turns, or with up to MaxTurns of the turns of a file
\* and of a turn with context and with labels of an earlier run
PassDialogues ==
    {<<Entry("domain", "travel")>>}
    \cup UNION {{<<Entry("domain", "travel"), Entry("turns", turns)>> :
                    turns \in [1..n -> FileTurns \cup
                        {<<Entry("context", <<<<"c", "a", "t">>>>),
                           Entry("resolvedQuery", <<" ", "C", "a", "t", ",", " ", "d", "o", "g", "s">>),
                           Entry("labels",
                                 <<<<Entry("responseType", "PTKB"),
                                     Entry("ndcg@1", [num |-> 7, den |-> 8]),
                                     Entry("evidence", <<[type |-> "str", value |-> "A"]>>)>>,
                                   <<Entry("responseType", "clarification")>>>>)>>}]} :
                 n \in 0..MaxTurns}

InitPasses ==
    /\ retrieved_evidence = <<>>
    /\ gold_evidence = <<>>
    /\ k = None
    /\ k_values \in RunKValues
    /\ query = <<>>
    /\ op = ""
    /\ result = NoResult
    /\ result2 = NoResult
    /\ turn = <<>>
    /\ calculate_ndcg_arg \in BOOLEAN
    /\ data \in PassDialogues
    /\ pc = ""
    /\ calls = <<>>
    /\ files = <<>>
    /\ log = <<>>
    /\ index_range = <<>>

\* the first call; result keeps what the call did: its outcome, its searches
\* and the dialogue as it left it
CallProcessTurns ==
    /\ op = ""
    /\ op' = "_process_turns"
    /\ \E backend \in Backends :
        result' = _process_turns(data, k_values, calculate_ndcg_arg, backend)
    /\ calls' = calls \o result'.searches
    /\ data' = result'.target_data
    /\ UNCHANGED <<retrieved_evidence, gold_evidence, k, query, result2>>
    /\ UNCHANGED <<k_values, turn, calculate_ndcg_arg, pc, files, log, index_range>>

\* the second call, with the same k_values and calculate_ndcg: the backend
\* answers the queries of the first call as it did then
CallProcessTurnsAgain ==
    /\ op = "_process_turns"
    /\ result2 = NoResult
    /\ \E backend \in Backends :
        /\ \A i \in 1..Len(calls) : backend[calls[i].query] = calls[i].answer
        /\ result2' = _process_turns(data, k_values, calculate_ndcg_arg, backend)
    /\ calls' = calls \o result2'.searches
    /\ data' = result2'.target_data
    /\ UNCHANGED <<retrieved_evidence, gold_evidence, k, query>>
    /\ UNCHANGED <<k_values, op, result, turn, calculate_ndcg_arg, pc, files, log,
                   index_range>>

NextPasses == CallProcessTurns \/ CallProcessTurnsAgain

SpecPasses == InitPasses /\ [][NextPasses]_vars

-----------------------------------------------------------------------------
(* DataPreprocessor: prepare_data.py, with the DataLoader of util/load_data.py.
   process_data works on copies that share the dialogues' turns with
   DataLoader.data (dict.copy() is shallow), so the turns are mutated in place
   and processed_data is, value for value, the data after the mutations. *)

\* logger.error: the error lines of the log, by the place that wrote them and
\* the number of the dialogue or turn they name
ErrorLine(place, number) == [level |-> "error", place |-> place, number |-> number]

\* faulty variant: a failed rewrite leaves the resolved query empty
RewriteTurnNoFallback(t, context, answer) ==
    LET with_query == DictSet(t, "query", context[Len(context)])
    IN  IF Raised(answer)
        THEN DictSet(with_query, "resolvedQuery", <<>>)
        ELSE DictSet(with_query, "resolvedQuery", answer.val)

\* the branch of process_dialogue for a turn with a non-empty context, answer
\* being the outcome of query_rewriter.rewrite_query: the turn after it
RewriteTurn(t, context, answer) ==
    LET q == context[Len(context)]
        with_query == DictSet(t, "query", q)
    IN  IF Raised(answer)
        THEN DictSet(with_query, "resolvedQuery", q)
        ELSE DictSet(with_query, "resolvedQuery", answer.val)

\* the loop of process_dialogue from turns[i] of the dialogue at index d:
\* run holds the exception raised, the turns as mutated so far, the rewrite
\* calls made and the error lines written; answers[i] is the outcome of the
\* rewrite call for turns[i]
RECURSIVE ProcessDialogueLoop(_, _, _, _)
ProcessDialogueLoop(run, answers, d, i) ==
    IF Raised(run) \/ i > Len(run.turns) THEN run
    ELSE LET t == run.turns[i]
         IN  IF ~HasKey(t, "context")
             THEN [run EXCEPT !.exc = "KeyError"]
             ELSE LET context == DictGet(t, "context")
                  IN  IF context # <<>>
                      THEN LET context_text == Join(<<"|", "|", "|">>, context)
                               answer == answers[i]
                           IN  ProcessDialogueLoop(
                                   [exc |-> "",
                                    turns |-> [run.turns EXCEPT
                                                  ![i] = RewriteTurn(t, context, answer)],
                                    calls |-> Append(run.calls,
                                                     [context |-> context_text,
                                                      answer |-> answer,
                                                      dialogue |-> d, turn |-> i]),
                                    log |-> IF Raised(answer)
                                            THEN Append(run.log, ErrorLine("turn", i))
                                            ELSE run.log],
                                   answers, d, i + 1)
                      ELSE ProcessDialogueLoop(
                               [run EXCEPT !.turns[i] =
                                   DictSet(DictSet(t, "query", <<>>), "resolvedQuery", <<>>)],
                               answers, d, i + 1)

\* faulty variant: the turns are rewritten in a copy, which a failure discards
process_dialogue_on_copy(dialogue, answers, d) ==
    IF ~HasKey(dialogue, "turns")
    THEN [exc |-> "KeyError", dialogue |-> dialogue, calls |-> <<>>, log |-> <<>>]
    ELSE LET run == ProcessDialogueLoop(
                        [exc |-> "", turns |-> DictGet(dialogue, "turns"),
                         calls |-> <<>>, log |-> <<>>],
                        answers, d, 1)
         IN  [exc |-> run.exc,
              dialogue |-> IF Raised(run) THEN dialogue
                           ELSE DictSet(dialogue, "turns", run.turns),
              calls |-> run.calls, log |-> run.log]

\* process_dialogue on the dialogue at index d: the exception raised, the
\* dialogue after the call, the rewrite calls made, the error lines written
process_dialogue(dialogue, answers, d) ==
    IF ~HasKey(dialogue, "turns")
    THEN [exc |-> "KeyError", dialogue |-> dialogue, calls |-> <<>>, log |-> <<>>]
    ELSE LET run == ProcessDialogueLoop(
                        [exc |-> "", turns |-> DictGet(dialogue, "turns"),
                         calls |-> <<>>, log |-> <<>>],
                        answers, d, 1)
         IN  [exc |-> run.exc, dialogue |-> DictSet(dialogue, "turns", run.turns),
              calls |-> run.calls, log |-> run.log]

\* faulty variant: the exception of a dialogue is swallowed without a line
HandleDialogueErrorSilently(lines, i, outcome) == lines

\* the except clause of the loop of process_data, for the dialogue at index i
HandleDialogueError(lines, i, outcome) ==
    IF Raised(outcome) THEN Append(lines, ErrorLine("dialogue", i + 1)) ELSE lines

\* list(self.data.keys())
get_top_keys == [n \in 1..Len(data.items) |-> data.items[n].key]

\* the end of range(start_index, end_index)
EndIndex == IF index_range.end_index = None THEN Len(get_top_keys)
            ELSE IntVal(index_range.end_index)

\* the outcomes of a rewrite call: the rewritten query, or the backend's error
RewriteAnswers == {Return(<<"c", "a", "t", "s">>), Raise("RuntimeError")}

\* one pass of the loop of process_data, i = pc.dialogue counting from 0
ProcessDialogue ==
    /\ pc.at = "dialogues"
    /\ pc.dialogue < EndIndex
    /\ IF pc.dialogue >= Len(get_top_keys)
       THEN /\ log' = HandleDialogueError(log, pc.dialogue, Raise("IndexError"))
            /\ UNCHANGED <<data, calls>>
       ELSE LET dialogue == data.items[pc.dialogue + 1].val
            IN  \E answers \in [1..Len(TurnsOf(dialogue)) -> RewriteAnswers] :
                    LET call == process_dialogue(dialogue, answers, pc.dialogue)
                    IN  /\ data' = [data EXCEPT !.items[pc.dialogue + 1].val = call.dialogue]
                        /\ calls' = calls \o call.calls
                        /\ log' = HandleDialogueError(log \o call.log, pc.dialogue, call)
    /\ pc' = At("dialogues", pc.dialogue + 1, 0)
    /\ UNCHANGED function_vars
    /\ UNCHANGED <<k_values, op, result, turn, calculate_ndcg_arg, files, index_range>>

\* the loop of process_data is over: return processed_data
ReturnProcessedData ==
    /\ pc.at = "dialogues"
    /\ pc.dialogue >= EndIndex
    /\ result' = Return(data)
    /\ pc' = At("done", 0, 0)
    /\ UNCHANGED function_vars
    /\ UNCHANGED <<k_values, op, turn, calculate_ndcg_arg, data, calls, files, log,
                   index_range>>

-----------------------------------------------------------------------------
(* Inputs of process_data *)

\* the turns of a raw file: without context, with an empty one, with two
\* utterances
RawTurns ==
    {<<Entry("labels", <<>>)>>,
     <<Entry("context", <<>>)>>,
     <<Entry("context", <<<<"h", "i">>, <<"c", "a", "t", "?">>>>)>>}

RawDialogues ==
    {<<Entry("domain", "travel")>>}
    \cup UNION {{<<Entry("domain", "travel"), Entry("turns", turns)>> :
                    turns \in [1..n -> RawTurns]} : n \in 0..MaxTurns}

RawDocuments ==
    UNION {{JsonDict([i \in 1..n |-> Entry(DialogueKeys[i], dialogues[i])]) :
               dialogues \in [1..n -> RawDialogues]} : n \in 0..Len(DialogueKeys)}

\* start_index and end_index: from the first or the second dialogue, to the
\* end, to the first dialogue, or past the last one
IndexRanges == [start_index : {0, 1}, end_index : {None, Some(1), Some(3)}]

InitPrepare ==
    /\ retrieved_evidence = <<>>
    /\ gold_evidence = <<>>
    /\ k = None
    /\ k_values = <<>>
    /\ query = <<>>
    /\ op = "process_data"
    /\ result = NoResult
    /\ result2 = NoResult
    /\ turn = <<>>
    /\ calculate_ndcg_arg = FALSE
    /\ files \in [input : RawDocuments, output : {<<>>}]
    /\ data = files.input
    /\ index_range \in IndexRanges
    /\ pc = At("dialogues", index_range.start_index, 0)
    /\ calls = <<>>
    /\ log = <<>>

NextPrepare == ProcessDialogue \/ ReturnProcessedData

SpecPrepare == InitPrepare /\ [][NextPrepare]_vars

-----------------------------------------------------------------------------
(* ConversationRetrievalProcessor, the aggregation:
   conversation_retrieval_processor.py. Floats are exact fractions here, kept
   in lowest terms; the rounding of numpy's float arithmetic is left out. *)

RECURSIVE Gcd(_, _)
Gcd(a, b) == IF b = 0 THEN a ELSE Gcd(b, a % b)

\* the fraction num / den, den > 0, in lowest terms
Fraction(num, den) ==
    LET g == Gcd(IF num < 0 THEN -num ELSE num, den)
    IN  [num |-> num \div g, den |-> den \div g]

FloatAdd(a, b) == Fraction(a.num * b.den + b.num * a.den, a.den * b.den)

FloatSub(a, b) == Fraction(a.num * b.den - b.num * a.den, a.den * b.den)

FloatMul(a, b) == Fraction(a.num * b.num, a.den * b.den)

FloatLess(a, b) == a.num * b.den < b.num * a.den

\* sum(scores[i..]) + total; total is a fraction, and testing that at every
\* pass has each addition made in its pass and not left to the end of the loop
RECURSIVE SumLoop(_, _, _)
SumLoop(scores, i, total) ==
    IF total.den > 0 /\ i <= Len(scores)
    THEN SumLoop(scores, i + 1, FloatAdd(total, scores[i]))
    ELSE total

\* faulty variant: the sum is divided by one more than the number of scores
np_mean_off_by_one(scores) ==
    LET total == SumLoop(scores, 1, Zero)
    IN  Fraction(total.num, total.den * (Len(scores) + 1))

\* np.mean of a non-empty list
np_mean(scores) ==
    LET total == SumLoop(scores, 1, Zero)
    IN  Fraction(total.num, total.den * Len(scores))

\* the maximum of scores[i..] and best; best is tested as total is in SumLoop
RECURSIVE MaxLoop(_, _, _)
MaxLoop(scores, i, best) ==
    IF best.den > 0 /\ i <= Len(scores)
    THEN MaxLoop(scores, i + 1, IF FloatLess(best, scores[i]) THEN scores[i] ELSE best)
    ELSE best

\* np.max of a non-empty list
np_max(scores) == MaxLoop(scores, 2, scores[1])

\* the minimum of scores[i..] and best
RECURSIVE MinLoop(_, _, _)
MinLoop(scores, i, best) ==
    IF best.den > 0 /\ i <= Len(scores)
    THEN MinLoop(scores, i + 1, IF FloatLess(scores[i], best) THEN scores[i] ELSE best)
    ELSE best

\* np.min of a non-empty list
np_min(scores) == MinLoop(scores, 2, scores[1])

\* the square root of a fraction, kept as the fraction it is the root of
Sqrt(x) == [sqrt_of |-> x]

\* np.std of a non-empty list: the root of the mean of the squared distances
\* to the mean (ddof = 0)
np_std(scores) ==
    LET mean == np_mean(scores)
        squares == [i \in 1..Len(scores) |->
                       FloatMul(FloatSub(scores[i], mean), FloatSub(scores[i], mean))]
    IN  Sqrt(np_mean(squares))

metric_types == <<"ndcg", "precision", "recall">>

\* the loops "for metric_type in metric_types: for k in k_values" that give
\* every metric@k key an empty list, from metric_types[m] and k_values[i]
RECURSIVE EmptyListsLoop(_, _, _, _)
EmptyListsLoop(ks, m, i, lists) ==
    IF m > Len(metric_types) THEN lists
    ELSE IF i > Len(ks) THEN EmptyListsLoop(ks, m + 1, 1, lists)
    ELSE EmptyListsLoop(ks, m, i + 1,
                        DictSet(lists, MetricKey(metric_types[m], ks[i]), <<>>))

\* the loop over the metric names for one label: every score the label
\* carries is appended to the list of its name
CollectLabel(label, lists) ==
    [n \in 1..Len(lists) |->
        IF HasKey(label, lists[n].key)
        THEN Entry(lists[n].key, Append(lists[n].val, DictGet(label, lists[n].key)))
        ELSE lists[n]]

\* the labels the collecting loops visit, in their order: those of the turns
\* with labels, from turns[i]
RECURSIVE LabelsOfTurns(_, _)
LabelsOfTurns(turns, i) ==
    IF i > Len(turns) THEN <<>>
    ELSE (IF HasKey(turns[i], "labels") THEN DictGet(turns[i], "labels") ELSE <<>>)
         \o LabelsOfTurns(turns, i + 1)

\* ... of the dialogues with turns, from items[i]
RECURSIVE LabelsOfItems(_, _)
LabelsOfItems(items, i) ==
    IF i > Len(items) THEN <<>>
    ELSE (IF HasKey(items[i].val, "turns")
          THEN LabelsOfTurns(DictGet(items[i].val, "turns"), 1)
          ELSE <<>>)
         \o LabelsOfItems(items, i + 1)

\* the loop of _collect_metrics_scores over the labels, from labels[i]; the
\* lists are evaluated at every pass, as total is in SumLoop
RECURSIVE CollectScoresLoop(_, _, _)
CollectScoresLoop(labels, i, lists) ==
    IF Len(lists) >= 0 /\ i <= Len(labels)
    THEN CollectScoresLoop(labels, i + 1, CollectLabel(labels[i], lists))
    ELSE lists

_collect_metrics_scores(json_data, ks) ==
    CollectScoresLoop(LabelsOfItems(json_data.items, 1), 1,
                      EmptyListsLoop(ks, 1, 1, <<>>))

\* the loop of calculate_overall_metrics over the metric names
RECURSIVE OverallLoop(_, _, _)
OverallLoop(lists, n, overall_metrics) ==
    IF n > Len(lists) THEN overall_metrics
    ELSE LET metric_name == lists[n].key
             scores == lists[n].val
         IN  OverallLoop(lists, n + 1,
                 IF scores # <<>>
                 THEN DictSet(DictSet(overall_metrics,
                                      "avg_" \o metric_name, np_mean(scores)),
                              "max_" \o metric_name, np_max(scores))
                 ELSE DictSet(DictSet(overall_metrics, "avg_" \o metric_name, Zero),
                              "max_" \o metric_name, Zero))

\* sum(len(scores) for scores in lists.values())
RECURSIVE TotalLength(_, _)
TotalLength(lists, n) ==
    IF n > Len(lists) THEN 0 ELSE Len(lists[n].val) + TotalLength(lists, n + 1)

calculate_overall_metrics(json_data, ks) ==
    IF json_data.type # "dict" THEN Raise("ValueError")
    ELSE LET metrics_scores_by_type == _collect_metrics_scores(json_data, ks)
             total_queries == TotalLength(metrics_scores_by_type, 1)
         IN  Return(DictSet(OverallLoop(metrics_scores_by_type, 1, <<>>),
                            "num_queries", total_queries))

\* the loops "for metric_type in metric_types: for k in k_values" for one
\* label, from metric_types[m] and k_values[i]: the score the label carries
\* under metric@k is appended to the list of that name, once for every pass
\* (the lists are evaluated at every pass, as total is in SumLoop)
RECURSIVE CollectByCutoffsLoop(_, _, _, _, _)
CollectByCutoffsLoop(label, ks, m, i, lists) ==
    IF Len(lists) < 0 \/ m > Len(metric_types) THEN lists
    ELSE IF i > Len(ks) THEN CollectByCutoffsLoop(label, ks, m + 1, 1, lists)
    ELSE LET metric_name == MetricKey(metric_types[m], ks[i])
         IN  CollectByCutoffsLoop(label, ks, m, i + 1,
                 IF HasKey(label, metric_name)
                 THEN DictSet(lists, metric_name,
                              Append(DictGet(lists, metric_name),
                                     DictGet(label, metric_name)))
                 ELSE lists)

\* the loop of _collect_metrics_by_response_type over the labels, from
\* labels[i] (by_type is evaluated at every pass, as total is in SumLoop)
RECURSIVE ResponseTypeLoop(_, _, _, _)
ResponseTypeLoop(labels, i, ks, by_type) ==
    IF Len(by_type) < 0 \/ i > Len(labels) THEN by_type
    ELSE LET label == labels[i]
             response_type == IF HasKey(label, "responseType")
                              THEN DictGet(label, "responseType")
                              ELSE "unknown"
             initialised == IF HasKey(by_type, response_type) THEN by_type
                            ELSE DictSet(by_type, response_type,
                                         EmptyListsLoop(ks, 1, 1, <<>>))
         IN  ResponseTypeLoop(labels, i + 1, ks,
                 DictSet(initialised, response_type,
                         CollectByCutoffsLoop(label, ks, 1, 1,
                                              DictGet(initialised, response_type))))

_collect_metrics_by_response_type(json_data, ks) ==
    ResponseTypeLoop(LabelsOfItems(json_data.items, 1), 1, ks, <<>>)

\* the statistics of one response type: the loop over its metric names; a
\* metric name occurs once in lists, so the five keys of a pass are new to
\* the dict and are put at its end
RECURSIVE StatisticsLoop(_, _, _)
StatisticsLoop(lists, n, statistics) ==
    IF n > Len(lists) THEN statistics
    ELSE LET metric_name == lists[n].key
             scores == lists[n].val
             some == <<Entry("avg_" \o metric_name, np_mean(scores)),
                       Entry("max_" \o metric_name, np_max(scores)),
                       Entry("min_" \o metric_name, np_min(scores)),
                       Entry("std_" \o metric_name, np_std(scores)),
                       Entry("count_" \o metric_name, Len(scores))>>
             no_scores == <<Entry("avg_" \o metric_name, Zero),
                            Entry("max_" \o metric_name, Zero),
                            Entry("min_" \o metric_name, Zero),
                            Entry("std_" \o metric_name, Zero),
                            Entry("count_" \o metric_name, 0)>>
         IN  StatisticsLoop(lists, n + 1,
                            statistics \o (IF scores # <<>> THEN some ELSE no_scores))

calculate_metrics_by_response_type(json_data, ks) ==
    IF json_data.type # "dict" THEN Raise("ValueError")
    ELSE LET metrics_by_response_type == _collect_metrics_by_response_type(json_data, ks)
         IN  Return([n \in 1..Len(metrics_by_response_type) |->
                        Entry(metrics_by_response_type[n].key,
                              StatisticsLoop(metrics_by_response_type[n].val, 1, <<>>))])

\* faulty variant: the collecting loops take the scores out of the label
LabelAfterCollectPopped(label) ==
    SelectSeq(label, LAMBDA entry : entry.key \in {"responseType", "evidence"})

\* a label after the collecting loops have visited it: they read it with
\* "metric_name in label", label[metric_name] and label.get, and store nothing
LabelAfterCollect(label) == label

\* the dataset after a collecting pass over its dialogues, turns and labels
DatasetAfterCollect(json_data) ==
    IF json_data.type # "dict" THEN json_data
    ELSE [json_data EXCEPT !.items =
            [d \in 1..Len(json_data.items) |->
                LET target_data == json_data.items[d].val
                IN  IF ~HasKey(target_data, "turns") THEN json_data.items[d]
                    ELSE Entry(json_data.items[d].key,
                           DictSet(target_data, "turns",
                             [t \in 1..Len(DictGet(target_data, "turns")) |->
                                LET tn == DictGet(target_data, "turns")[t]
                                IN  IF ~HasKey(tn, "labels") THEN tn
                                    ELSE DictSet(tn, "labels",
                                           [n \in 1..Len(DictGet(tn, "labels")) |->
                                              LabelAfterCollect(
                                                  DictGet(tn, "labels")[n])])]))]]

-----------------------------------------------------------------------------
(* Inputs of the aggregation *)

\* labels of a processed file: two of type PTKB, the first with ndcg@1 only;
\* one without responseType; one that was not scored
ScoredLabelPTKBHalf ==
    <<Entry("responseType", "PTKB"), Entry("ndcg@1", [num |-> 1, den |-> 2])>>

ScoredLabelPTKBOne ==
    <<Entry("responseType", "PTKB"),
      Entry("ndcg@1", [num |-> 1, den |-> 1]),
      Entry("precision@1", [num |-> 1, den |-> 1]),
      Entry("recall@1", [num |-> 1, den |-> 2])>>

ScoredLabelUntyped ==
    <<Entry("ndcg@1", Zero), Entry("precision@1", Zero), Entry("recall@1", Zero),
      Entry("ndcg@3", [num |-> 1, den |-> 2])>>

UnscoredLabel ==
    <<Entry("responseType", "clarification"), Entry("evidence", <<>>)>>

\* turns of a processed file: without labels, or with some of the labels
ScoredTurns ==
    {<<Entry("query", <<"c", "a", "t">>)>>,
     <<Entry("labels", <<ScoredLabelPTKBHalf, ScoredLabelPTKBOne>>)>>,
     <<Entry("labels", <<ScoredLabelUntyped>>)>>,
     <<Entry("labels", <<UnscoredLabel>>)>>}

ScoredDialogues ==
    {<<Entry("domain", "travel")>>}
    \cup UNION {{<<Entry("domain", "travel"), Entry("turns", turns)>> :
                    turns \in [1..n -> ScoredTurns]} : n \in 0..MaxTurns}

\* the json_data arguments: a dict of dialogues with up to MaxTurns + 1 turns
\* in all, or a list
ScoredDocuments ==
    {doc \in UNION {{JsonDict([i \in 1..n |-> Entry(DialogueKeys[i], dialogues[i])]) :
                        dialogues \in [1..n -> ScoredDialogues]} :
                            n \in 0..Len(DialogueKeys)} :
        CountTurns(doc.items, 1) <= MaxTurns + 1}
    \cup {JsonList(<<>>),
          JsonList(<<<<Entry("domain", "travel"),
                       Entry("turns", <<<<Entry("labels", <<ScoredLabelPTKBOne>>)>>>>)>>>>)}

-----------------------------------------------------------------------------
(* The aggregation: one call on each processed file *)

InitAggregate ==
    /\ retrieved_evidence = <<>>
    /\ gold_evidence = <<>>
    /\ k = None
    /\ k_values \in {<<1>>, <<1, 3>>, <<1, 1>>}
    /\ query = <<>>
    /\ op = ""
    /\ result = NoResult
    /\ result2 = NoResult
    /\ turn = <<>>
    /\ calculate_ndcg_arg = FALSE
    /\ data \in ScoredDocuments
    /\ pc = ""
    /\ calls = <<>>
    /\ files = <<>>
    /\ log = <<>>
    /\ index_range = <<>>

CallOverallMetrics ==
    /\ op = ""
    /\ op' = "calculate_overall_metrics"
    /\ result' = calculate_overall_metrics(data, k_values)
    /\ data' = DatasetAfterCollect(data)
    /\ UNCHANGED function_vars
    /\ UNCHANGED <<k_values, turn, calculate_ndcg_arg, pc, calls, files, log, index_range>>

CallMetricsByResponseType ==
    /\ op = ""
    /\ op' = "calculate_metrics_by_response_type"
    /\ result' = calculate_metrics_by_response_type(data, k_values)
    /\ data' = DatasetAfterCollect(data)
    /\ UNCHANGED function_vars
    /\ UNCHANGED <<k_values, turn, calculate_ndcg_arg, pc, calls, files, log, index_range>>

NextAggregate == CallOverallMetrics \/ CallMetricsByResponseType

SpecAggregate == InitAggregate /\ [][NextAggregate]_vars

-----------------------------------------------------------------------------
(* The reports of run_retrieval.py: the output file is loaded and the two
   aggregation functions are called on it, here in any order, one of them
   possibly twice *)

ReportFunctions == {"calculate_overall_metrics", "calculate_metrics_by_response_type"}

\* the outcome of one of the two functions
Report(function, json_data, ks) ==
    IF function = "calculate_overall_metrics"
    THEN calculate_overall_metrics(json_data, ks)
    ELSE calculate_metrics_by_response_type(json_data, ks)

\* the processed files: those of the aggregation with up to MaxTurns turns in all
ReportDocuments ==
    {doc \in ScoredDocuments : doc.type = "dict" => CountTurns(doc.items, 1) <= MaxTurns}

\* processed_data = json.load(f) of the output file
InitReports ==
    /\ retrieved_evidence = <<>>
    /\ gold_evidence = <<>>
    /\ k = None
    /\ k_values \in {<<1>>, <<1, 3>>}
    /\ query = <<>>
    /\ op = ""
    /\ result = NoResult
    /\ result2 = NoResult
    /\ turn = <<>>
    /\ calculate_ndcg_arg = FALSE
    /\ files \in [output : {<<doc>> : doc \in ReportDocuments}]
    /\ data = files.output[1]
    /\ pc = ""
    /\ calls = <<>>
    /\ log = <<>>
    /\ index_range = <<>>

\* the second call on the same processed_data: result2 holds the function
\* called and its outcome
CallReportAgain ==
    /\ op \in ReportFunctions
    /\ result2 = NoResult
    /\ \E function \in ReportFunctions :
        LET report == Report(function, data, k_values)
        IN  result2' = [exc |-> report.exc, val |-> report.val, op |-> function]
    /\ data' = DatasetAfterCollect(data)
    /\ UNCHANGED <<retrieved_evidence, gold_evidence, k, query>>
    /\ UNCHANGED <<k_values, op, result, turn, calculate_ndcg_arg, pc, calls, files, log,
                   index_range>>

NextReports == CallOverallMetrics \/ CallMetricsByResponseType \/ CallReportAgain

SpecReports == InitReports /\ [][NextReports]_vars

-----------------------------------------------------------------------------
(* The three entry points that take a dataset: process_json_file run on an
   input file, or one of the aggregation functions called on a document *)

InitDataset == InitFile \/ InitAggregate

NextDataset ==
    \/ op = "process_json_file" /\ NextFile
    \/ op # "process_json_file" /\ NextAggregate

SpecDataset == InitDataset /\ [][NextDataset]_vars

-----------------------------------------------------------------------------
(* What the metric claims speak of, stated on the arguments of the call *)

SingleMetricOps == {"calculate_precision_at_k", "calculate_recall_at_k", "calculate_ndcg"}

\* the cutoff in effect: k, or the length of the retrieved list when k is None
EffectiveK == IF k = None THEN Len(retrieved_evidence) ELSE IntVal(k)

\* the gold id set: the bare strings and the passage_id fields of the evidence
GoldIdSet ==
    {gold_evidence[i].value :
        i \in {j \in 1..Len(gold_evidence) : gold_evidence[j].type = "str"}}
    \cup {gold_evidence[i].fields.passage_id :
        i \in {j \in 1..Len(gold_evidence) :
                  /\ gold_evidence[j].type = "dict"
                  /\ "passage_id" \in DOMAIN gold_evidence[j].fields}}

\* the 1-based ranks of the top k
TopRanks == 1..Min(EffectiveK, Len(retrieved_evidence))

\* the ranks of the top k that hold a gold document
HitRanks == {i \in TopRanks : retrieved_evidence[i].passage_id \in GoldIdSet}

TopKDistinct ==
    \A i, j \in TopRanks :
        retrieved_evidence[i].passage_id = retrieved_evidence[j].passage_id => i = j

InUnitInterval(x) == x.num >= 0 /\ x.num <= x.den /\ x.den > 0

IsOne(x) == x.den > 0 /\ x.num = x.den

IsZero(x) == x.den > 0 /\ x.num = 0

RECURSIVE SumDiscounts(_)
SumDiscounts(S) ==
    IF S = {} THEN 0
    ELSE LET i == CHOOSE x \in S : TRUE
         IN  Discount(i) + SumDiscounts(S \ {i})

\* the scenario of the specification: retrieved A, B, C; gold {B}; k = 3
ScenarioABC ==
    /\ retrieved_evidence = <<[passage_id |-> "A"], [passage_id |-> "B"], [passage_id |-> "C"]>>
    /\ GoldIdSet = {"B"}
    /\ k = Some(3)

-----------------------------------------------------------------------------
(* C1 *)

\* C1, as stated: for every retrieved list, gold list and cutoff k, precision@k,
\* recall@k and ndcg@k each return a value in [0, 1].
C1_MetricsInUnitInterval ==
    op \in SingleMetricOps => result.exc = "" /\ InUnitInterval(result.val)

\* C1, amended: precision@k is in [0, 1] for every input; recall@k and ndcg@k are
\* in [0, 1] whenever the passage_ids of the top-k retrieved documents are
\* pairwise distinct.
C1_MetricsInUnitIntervalIfDistinct ==
    /\ op = "calculate_precision_at_k" => result.exc = "" /\ InUnitInterval(result.val)
    /\ op \in {"calculate_recall_at_k", "calculate_ndcg"} /\ TopKDistinct
          => result.exc = "" /\ InUnitInterval(result.val)

C1_Witness ==
    /\ op = "calculate_ndcg"
    /\ TopKDistinct
    /\ Cardinality(HitRanks) >= 1
    /\ result.val.num > 0
    /\ result.val.num < result.val.den

-----------------------------------------------------------------------------
(* C2 *)

\* C2: calculate_all_metrics returns a mapping whose keys are exactly
\* "{metric}@{k}" for metric in {ndcg, precision, recall} and k in k_values, each
\* value being the result of the single-metric function for the same arguments.
C2_AllMetricsCrossProduct ==
    op = "calculate_all_metrics" =>
        /\ result.exc = ""
        /\ DictKeys(result.val) =
               {m \o "@" \o ToString(k_values[i]) :
                   m \in {"ndcg", "precision", "recall"}, i \in 1..Len(k_values)}
        /\ Len(result.val) = Cardinality(DictKeys(result.val))
        /\ k_values = <<1, 3>> =>
               DictKeys(result.val) = {"ndcg@1", "ndcg@3", "precision@1",
                                       "precision@3", "recall@1", "recall@3"}
        /\ \A i \in 1..Len(k_values) :
               LET kv == k_values[i]
               IN  /\ DictGet(result.val, "ndcg@" \o ToString(kv)) =
                          calculate_ndcg(retrieved_evidence, gold_evidence, Some(kv)).val
                   /\ DictGet(result.val, "precision@" \o ToString(kv)) =
                          calculate_precision_at_k(retrieved_evidence, gold_evidence,
                                                   Some(kv)).val
                   /\ DictGet(result.val, "recall@" \o ToString(kv)) =
                          calculate_recall_at_k(retrieved_evidence, gold_evidence,
                                                Some(kv)).val

C2_Witness ==
    /\ op = "calculate_all_metrics"
    /\ k_values = <<1, 3>>
    /\ Len(retrieved_evidence) = 3
    /\ GoldIdSet = {"B"}
    /\ retrieved_evidence[2].passage_id = "B"
    /\ Len(result.val) = 6
    /\ DictGet(result.val, "precision@3") = [num |-> 1, den |-> 3]

-----------------------------------------------------------------------------
(* C3 *)

\* C3, as stated: if every retrieved document among the top k has its id in the
\* gold set and |gold set| >= k, precision@k is exactly 1.0.
C3_PrecisionOneIfAllGold ==
    /\ op = "calculate_precision_at_k"
    /\ \A i \in TopRanks : retrieved_evidence[i].passage_id \in GoldIdSet
    /\ Cardinality(GoldIdSet) >= EffectiveK
    => result.exc = "" /\ IsOne(result.val)

\* C3, amended: if k >= 1, the retrieved list holds at least k documents, every
\* one of its top k has its id in the gold set and |gold set| >= k, precision@k
\* is exactly 1.0.
C3_PrecisionOneIfKGoldDocs ==
    /\ op = "calculate_precision_at_k"
    /\ EffectiveK >= 1
    /\ Len(retrieved_evidence) >= EffectiveK
    /\ \A i \in TopRanks : retrieved_evidence[i].passage_id \in GoldIdSet
    /\ Cardinality(GoldIdSet) >= EffectiveK
    => result.exc = "" /\ IsOne(result.val)

C3_Witness ==
    /\ op = "calculate_precision_at_k"
    /\ k = Some(2)
    /\ Len(retrieved_evidence) = 3
    /\ HitRanks = {1, 2}
    /\ Cardinality(GoldIdSet) = 2
    /\ IsOne(result.val)

-----------------------------------------------------------------------------
(* C4 *)

\* the first min(|gold set|, k) ranks exist and all hold gold documents
IdealPrefix ==
    LET m == Min(Cardinality(GoldIdSet), EffectiveK)
    IN  /\ Len(retrieved_evidence) >= m
        /\ \A i \in 1..m : retrieved_evidence[i].passage_id \in GoldIdSet

\* C4, as stated: if the first min(|gold set|, k) ranks of the retrieved list are
\* all gold items, ndcg@k is exactly 1.0.
C4_NdcgOneIfIdeal ==
    op = "calculate_ndcg" /\ IdealPrefix => result.exc = "" /\ IsOne(result.val)

\* C4, amended: if the gold set is not empty, k >= 1, the passage_ids of the top k
\* are pairwise distinct and the first min(|gold set|, k) ranks are all gold
\* items, ndcg@k is exactly 1.0.
C4_NdcgOneIfIdealDistinct ==
    /\ op = "calculate_ndcg"
    /\ GoldIdSet # {}
    /\ EffectiveK >= 1
    /\ TopKDistinct
    /\ IdealPrefix
    => result.exc = "" /\ IsOne(result.val)

C4_Witness ==
    /\ op = "calculate_ndcg"
    /\ k = Some(3)
    /\ Cardinality(GoldIdSet) = 2
    /\ Len(retrieved_evidence) = 3
    /\ TopKDistinct
    /\ HitRanks = {1, 2}
    /\ IsOne(result.val)

-----------------------------------------------------------------------------
(* C5 *)

\* C5: the metric functions never raise and resolve zero denominators to 0.0:
\* with an empty gold set recall@k and ndcg@k are 0.0; with k = 0 precision@k
\* and ndcg@k are 0.0; with an empty retrieved list, a gold set that is not
\* empty and k > 0, all three are 0.0.
C5_ZeroDenominators ==
    op \in SingleMetricOps =>
        /\ result.exc = ""
        /\ GoldIdSet = {} /\ op \in {"calculate_recall_at_k", "calculate_ndcg"}
              => IsZero(result.val)
        /\ EffectiveK = 0 /\ op \in {"calculate_precision_at_k", "calculate_ndcg"}
              => IsZero(result.val)
        /\ retrieved_evidence = <<>> /\ GoldIdSet # {} /\ EffectiveK > 0
              => IsZero(result.val)

C5_Witness ==
    /\ op = "calculate_recall_at_k"
    /\ GoldIdSet = {}
    /\ Len(gold_evidence) = 2
    /\ Len(retrieved_evidence) = 2
    /\ k = Some(2)
    /\ result = Return(Zero)

-----------------------------------------------------------------------------
(* C6 *)

\* C6: with hits = the number of documents among the first k of the retrieved
\* list whose passage_id is in the gold id set, precision@k is hits / k (0.0 when
\* k = 0) and recall@k is hits / |gold id set| (0.0 when the set is empty), k =
\* None meaning the length of the retrieved list; retrieved A, B, C with gold
\* {B} and k = 3 gives precision 1/3 and recall 1.
C6_PrecisionRecallFormula ==
    /\ op = "calculate_precision_at_k" =>
          /\ result.exc = ""
          /\ result.val = IF EffectiveK = 0 THEN Zero
                          ELSE [num |-> Cardinality(HitRanks), den |-> EffectiveK]
          /\ ScenarioABC => result.val = [num |-> 1, den |-> 3]
    /\ op = "calculate_recall_at_k" =>
          /\ result.exc = ""
          /\ result.val = IF GoldIdSet = {} THEN Zero
                          ELSE [num |-> Cardinality(HitRanks),
                                den |-> Cardinality(GoldIdSet)]
          /\ ScenarioABC => result.val = [num |-> 1, den |-> 1]

C6_Witness ==
    /\ op = "calculate_recall_at_k"
    /\ ScenarioABC
    /\ IsOne(result.val)

-----------------------------------------------------------------------------
(* C7 *)

\* C7: calculate_ndcg is DCG / IDCG with binary relevance: DCG sums 1/log2(i+2)
\* over the 0-based positions i < k of the retrieved list that hold a gold
\* document (the top rank uses log2(2), a discount of 1), IDCG sums 1/log2(i+2)
\* for i = 0 .. m-1 with m = min(|gold id set|, k); the result is 0.0 when IDCG
\* is 0.
C7_NdcgFormula ==
    op = "calculate_ndcg" =>
        LET DCG == SumDiscounts({r - 1 : r \in HitRanks})
            m == Min(Cardinality(GoldIdSet), EffectiveK)
            IDCG == SumDiscounts(0..(m - 1))
        IN  /\ result.exc = ""
            /\ result.val = IF IDCG = 0 THEN Zero ELSE [num |-> DCG, den |-> IDCG]
            /\ HitRanks = {1} /\ m = 1 => IsOne(result.val)
            /\ ScenarioABC => result.val = [num |-> 630930, den |-> 1000000]

C7_Witness ==
    /\ op = "calculate_ndcg"
    /\ ScenarioABC
    /\ result.val = [num |-> 630930, den |-> 1000000]

-----------------------------------------------------------------------------
(* C8 *)

\* C8: query normalization is idempotent: for every query q,
\* _preprocess_query(_preprocess_query(q)) = _preprocess_query(q).
C8_PreprocessIdempotent ==
    op = "_preprocess_query twice" => result2.val = result.val

-----------------------------------------------------------------------------
(* C9 *)

\* r is q with its leading and trailing whitespace removed and nothing else changed
IsTrimmed(r, q) ==
    \E a \in 1..(Len(q) + 1) : \E b \in 0..Len(q) :
        /\ r = SubSeq(q, a, b)
        /\ \A i \in 1..(a - 1) : q[i] \in Whitespace
        /\ \A i \in (b + 1)..Len(q) : q[i] \in Whitespace
        /\ r # <<>> => r[1] \notin Whitespace /\ r[Len(r)] \notin Whitespace

\* C9: if fewer than 2 tokens survive filtering, _preprocess_query returns the
\* input query with only its leading and trailing whitespace removed: letter
\* case, punctuation, stop words and inner whitespace are unchanged.
C9_FallbackIsTrimmedQuery ==
    op = "_preprocess_query" /\ Len(FilteredWords(query)) < 2
        => result.exc = "" /\ IsTrimmed(result.val, query)

\* " How \tis \tCat,\n" (or one like it): one survivor, "cat"; the result keeps
\* the capital, the stop words, the comma and the two-character gaps
C9_Witness ==
    /\ op = "_preprocess_query"
    /\ FilteredWords(query) = <<<<"c", "a", "t">>>>
    /\ Len(query) > Len(result.val)
    /\ result.val = <<"H", "o", "w", " ", "\t", "i", "s", " ", "\t", "C", "a", "t", ",">>

-----------------------------------------------------------------------------
(* C10 *)

\* C10: whenever at least 2 tokens survive filtering, _preprocess_query returns
\* the surviving tokens lower-cased and joined by single spaces, and no token of
\* the result is a stop word or has length <= 2 once its trailing punctuation
\* has been stripped.
C10_KeywordsFiltered ==
    op = "_preprocess_query" /\ Len(FilteredWords(query)) >= 2 =>
        LET tokens == Split(result.val)
        IN  /\ result.val = Join(<<" ">>, tokens)
            /\ Len(tokens) >= 2
            /\ \A i \in 1..Len(tokens) :
                   /\ tokens[i] = Lower(tokens[i])
                   /\ tokens[i] \notin question_words
                   /\ Len(RStrip(tokens[i], Punctuation)) > 2
-----------------------------------------------------------------------------
(* The turn processor *)

\* the step that is the call of _process_single_turn
IsProcessSingleTurnStep == op = "" /\ op' = "_process_single_turn"

\* C11: a turn without the resolvedQuery key is returned as it is: every field,
\* labels included, keeps its value, nothing is added to it, no error is
\* raised and the retriever is not called.
C11_TurnWithoutQueryKeyUntouched ==
    [][(IsProcessSingleTurnStep /\ ~HasKey(turn, query_key))
       => /\ result' = Return(turn)
          /\ turn' = turn
          /\ calls' = calls]_vars

\* a turn with scoreable labels but no resolvedQuery went through a scoring run
C11_Witness ==
    /\ op = "_process_single_turn"
    /\ ~HasKey(turn, query_key)
    /\ calculate_ndcg_arg
    /\ k_values = <<1, 3>>
    /\ HasKey(turn, "labels")
    /\ \E i \in 1..Len(DictGet(turn, "labels")) :
           HasKey(DictGet(turn, "labels")[i], "evidence")
    /\ result = Return(turn)
    /\ calls = <<>>

\* C12: a turn with the resolvedQuery key makes exactly one search call, with
\* the normalized query and top_k = 10; the turn returned carries the raw
\* resolvedQuery and, as retrieved_evidence, the list the retriever returned,
\* in its order.
C12_OneSearchWithNormalizedQuery ==
    [][(IsProcessSingleTurnStep /\ HasKey(turn, query_key))
       => /\ Len(calls') = Len(calls) + 1
          /\ calls'[Len(calls')].query = _preprocess_query(DictGet(turn, query_key))
          /\ calls'[Len(calls')].top_k = 10
          /\ Raised(result') <=> Raised(calls'[Len(calls')].answer)
          /\ ~Raised(result') =>
                /\ DictGet(result'.val, "resolvedQuery") = DictGet(turn, query_key)
                /\ DictGet(result'.val, "retrieved_evidence")
                       = calls'[Len(calls')].answer.val]_vars

\* a query that normalization changes was searched and two different hits
\* came back
C12_Witness ==
    /\ op = "_process_single_turn"
    /\ HasKey(turn, query_key)
    /\ ~Raised(result)
    /\ Len(calls) = 1
    /\ calls[1].query # DictGet(turn, query_key)
    /\ calls[1].query = <<"c", "a", "t", " ", "d", "o", "g", "s">>
    /\ LET evidence == DictGet(result.val, "retrieved_evidence")
       IN  /\ Len(evidence) = 2
           /\ evidence[1].passage_id = "B"
           /\ evidence[2].passage_id = "A"

\* the keys a scoring run with the cutoffs ks writes into a label
RunMetricKeys(ks) ==
    {MetricKey(metric, ks[j]) : metric \in {"ndcg", "precision", "recall"}, j \in 1..Len(ks)}

\* scored is label after a run that scored it against search_results
IsScoredLabel(scored, label, search_results, ks) ==
    LET metrics == calculate_all_metrics(search_results, DictGet(label, "evidence"), ks).val
    IN  /\ DictKeys(scored) = DictKeys(label) \cup RunMetricKeys(ks)
        /\ \A key \in RunMetricKeys(ks) : DictGet(scored, key) = DictGet(metrics, key)
        /\ \A key \in DictKeys(label) \ RunMetricKeys(ks) :
               DictGet(scored, key) = DictGet(label, key)

\* C13: in the turn returned for a turn with labels, a label with evidence has,
\* when calculate_ndcg is true, the keys ndcg@k, precision@k and recall@k for
\* every k of k_values with the values of calculate_all_metrics on its evidence
\* and the turn's retrieved results, and every other field as before; a label
\* without evidence, and every label when calculate_ndcg is false, is as
\* before; a turn without labels gets retrieved_evidence and no metric field.
C13_LabelsScoredInPlace ==
    [][(IsProcessSingleTurnStep /\ HasKey(turn, query_key) /\ ~Raised(result'))
       => LET new_turn == result'.val
              search_results == DictGet(new_turn, "retrieved_evidence")
          IN  IF HasKey(turn, "labels")
              THEN LET labels == DictGet(turn, "labels")
                       new_labels == DictGet(new_turn, "labels")
                   IN  /\ Len(new_labels) = Len(labels)
                       /\ \A i \in 1..Len(labels) :
                              IF calculate_ndcg_arg' /\ HasKey(labels[i], "evidence")
                              THEN IsScoredLabel(new_labels[i], labels[i],
                                                 search_results, k_values')
                              ELSE new_labels[i] = labels[i]
              ELSE DictKeys(new_turn) \subseteq
                       {"query", "resolvedQuery", "retrieved_evidence"}]_vars

\* a scoring run at k = 1, 3 returned a turn whose first label, with evidence,
\* has its response type, an ndcg@1 of 1 and a recall@3, and whose second label,
\* without evidence, has no metric
C13_Witness ==
    /\ op = "_process_single_turn"
    /\ calculate_ndcg_arg
    /\ k_values = <<1, 3>>
    /\ ~Raised(result)
    /\ HasKey(result.val, "labels")
    /\ LET labels == DictGet(result.val, "labels")
       IN  /\ Len(labels) = 2
           /\ HasKey(labels[1], "evidence")
           /\ HasKey(labels[1], "recall@3")
           /\ DictGet(labels[1], "responseType") = "PTKB"
           /\ DictGet(labels[1], "ndcg@1") = [num |-> 1000000, den |-> 1000000]
           /\ DictKeys(labels[2]) = {"responseType"}

-----------------------------------------------------------------------------
(* The dataset driver *)

\* the places of the turns of a document that carry the query key
SearchedPlaces(doc) ==
    {<<d, t>> \in (1..Len(doc.items)) \X (1..MaxTurns + 1) :
        /\ t <= Len(TurnsOf(doc.items[d].val))
        /\ HasKey(TurnsOf(doc.items[d].val)[t], query_key)}

\* how many searches the run has made once it is through turn t of dialogue d
SearchNumber(doc, d, t) ==
    Cardinality({place \in SearchedPlaces(doc) :
                    \/ place[1] < d
                    \/ place[1] = d /\ place[2] <= t})

\* C14: a finished run has searched for the turns in file order (dialogues in
\* key order, turns in list order); in the output the dialogue keys are those
\* of the input in the same order, a dialogue without turns is as it was, and
\* in every other dialogue the turn at each index is what _process_single_turn
\* returned for the input turn at that index, so that no turn is added,
\* dropped or moved.
C14_OutputKeepsDialoguesAndTurns ==
    pc.at = "done" =>
        LET input == files.input.items
            output == files.output[1].items
        IN  /\ files.output[1].type = "dict"
            /\ Len(output) = Len(input)
            /\ Len(calls) = Cardinality(SearchedPlaces(files.input))
            /\ \A d \in 1..Len(input) :
                /\ output[d].key = input[d].key
                /\ IF ~HasKey(input[d].val, "turns")
                   THEN output[d].val = input[d].val
                   ELSE /\ DictKeys(output[d].val) = DictKeys(input[d].val)
                        /\ DictGet(output[d].val, "domain") = DictGet(input[d].val, "domain")
                        /\ Len(TurnsOf(output[d].val)) = Len(TurnsOf(input[d].val))
                        /\ \A t \in 1..Len(TurnsOf(input[d].val)) :
                            LET n == SearchNumber(files.input, d, t)
                                answer == IF n = 0 THEN NoResult ELSE calls[n].answer
                                call == _process_single_turn(
                                            TurnsOf(input[d].val)[t], query_key, k_values,
                                            calculate_ndcg_arg, answer)
                            IN  /\ TurnsOf(output[d].val)[t] = call.outcome.val
                                /\ call.searches # <<>> =>
                                       calls[n].query = call.searches[1].query

\* a scoring run is through a file whose first dialogue has no turns and whose
\* second has two different turns, searched with different results
C14_Witness ==
    /\ pc.at = "done"
    /\ calculate_ndcg_arg
    /\ Len(files.input.items) = 2
    /\ ~HasKey(files.input.items[1].val, "turns")
    /\ Len(TurnsOf(files.input.items[2].val)) = 2
    /\ Len(calls) = 2
    /\ calls[1].query # calls[2].query
    /\ calls[1].answer.val = <<>>
    /\ calls[2].answer.val # <<>>
    /\ HasKey(TurnsOf(files.output[1].items[2].val)[2], "labels")

\* C15: process_json_file is total over the dataset: a search that raises for
\* one turn does not end the run, which goes on with the remaining turns and
\* dialogues and writes the output file; the run is never left by an
\* exception of the retriever.
C15_BackendFailureDoesNotAbort ==
    (\E n \in 1..Len(calls) : Raised(calls[n].answer)) =>
        /\ pc.at \in {"turns", "done"}
        /\ pc.at = "done" => files.output # <<>>

-----------------------------------------------------------------------------
(* The preprocessor *)

\* the indices process_data loops over
IndexRange == index_range.start_index .. (EndIndex - 1)

\* processing the dialogue at index i of the input raises: there is no such
\* dialogue, it has no turns, or one of its turns has no context
DialogueFails(i) ==
    \/ i >= Len(files.input.items)
    \/ ~HasKey(files.input.items[i + 1].val, "turns")
    \/ \E t \in 1..Len(TurnsOf(files.input.items[i + 1].val)) :
           ~HasKey(TurnsOf(files.input.items[i + 1].val)[t], "context")

ErrorLines == {log[n] : n \in 1..Len(log)}

\* C16: process_data returns the dataset whatever happens to the dialogues
\* of its range: a dialogue whose processing raises has its error line in the
\* log, and every other dialogue of the range, before or after it, has query
\* and resolvedQuery on all its turns.
C16_DialogueErrorsIsolated ==
    pc.at = "done" =>
        /\ result = Return(data)
        /\ \A i \in IndexRange :
            IF DialogueFails(i)
            THEN ErrorLine("dialogue", i + 1) \in ErrorLines
            ELSE /\ ErrorLine("dialogue", i + 1) \notin ErrorLines
                 /\ \A t \in 1..Len(TurnsOf(data.items[i + 1].val)) :
                        {"query", "resolvedQuery"}
                            \subseteq DictKeys(TurnsOf(data.items[i + 1].val)[t])

\* the run over both dialogues is done: the first, with a turn without
\* context, raised and was logged; the second got its rewritten query
C16_Witness ==
    /\ pc.at = "done"
    /\ index_range = [start_index |-> 0, end_index |-> None]
    /\ Len(data.items) = 2
    /\ Len(TurnsOf(files.input.items[1].val)) = 2
    /\ DialogueFails(0)
    /\ ErrorLine("dialogue", 1) \in ErrorLines
    /\ ~DialogueFails(1)
    /\ Len(TurnsOf(data.items[2].val)) = 1
    /\ DictGet(TurnsOf(data.items[2].val)[1], "resolvedQuery") = <<"c", "a", "t", "s">>
    /\ result = Return(data)

\* C17: a turn whose rewrite call raised has the last utterance of its context
\* as query and as resolvedQuery; the exception stays inside the turn: the
\* turns after it are processed up to the end of the dialogue or to a turn
\* without context, and the dialogue is not reported as failed for it.
C17_RewriteFailureFallsBack ==
    \A n \in 1..Len(calls) :
        Raised(calls[n].answer) =>
            LET turns == TurnsOf(data.items[calls[n].dialogue + 1].val)
                t == turns[calls[n].turn]
                context == DictGet(t, "context")
            IN  /\ context # <<>>
                /\ DictGet(t, "query") = context[Len(context)]
                /\ DictGet(t, "resolvedQuery") = context[Len(context)]
                /\ \A j \in (calls[n].turn + 1)..Len(turns) :
                       (\A m \in (calls[n].turn + 1)..j : HasKey(turns[m], "context"))
                           => HasKey(turns[j], "resolvedQuery")
                /\ ~DialogueFails(calls[n].dialogue)
                       => ErrorLine("dialogue", calls[n].dialogue + 1) \notin ErrorLines

\* the rewrite of the first turn of a dialogue raised and that of its second
\* turn returned
C17_Witness ==
    /\ Len(calls) = 2
    /\ calls[1].dialogue = calls[2].dialogue
    /\ Raised(calls[1].answer)
    /\ ~Raised(calls[2].answer)
    /\ LET turns == TurnsOf(data.items[calls[1].dialogue + 1].val)
       IN  /\ DictGet(turns[1], "resolvedQuery") = <<"c", "a", "t", "?">>
           /\ DictGet(turns[2], "resolvedQuery") = <<"c", "a", "t", "s">>
    /\ ErrorLine("turn", 1) \in ErrorLines

-----------------------------------------------------------------------------
(* The aggregation *)

FloatEq(a, b) == a.num * b.den = b.num * a.den

\* the labels of a turn, none when it has no labels key
LabelsOf(t) == IF HasKey(t, "labels") THEN DictGet(t, "labels") ELSE <<>>

\* the places <<dialogue, turn, label>> of the labels of the data
LabelPlaces ==
    UNION {UNION {{<<d, t, l>> : l \in 1..Len(LabelsOf(TurnsOf(data.items[d].val)[t]))} :
                     t \in 1..Len(TurnsOf(data.items[d].val))} :
              d \in 1..Len(data.items)}

LabelAt(place) == LabelsOf(TurnsOf(data.items[place[1]].val)[place[2]])[place[3]]

\* the places of the labels that carry the key
PlacesWith(key) == {place \in LabelPlaces : HasKey(LabelAt(place), key)}

\* the sum of the values the labels at the places carry under the key
RECURSIVE SumAt(_, _)
SumAt(places, key) ==
    IF places = {} THEN Zero
    ELSE LET place == CHOOSE p \in places : TRUE
         IN  FloatAdd(DictGet(LabelAt(place), key), SumAt(places \ {place}, key))

\* x is the mean of the values at the places, which are not empty
IsMeanAt(x, places, key) ==
    LET total == SumAt(places, key)
    IN  x.num * total.den * Cardinality(places) = total.num * x.den

\* x is the largest of the values at the places
IsMaxAt(x, places, key) ==
    /\ \E place \in places : FloatEq(x, DictGet(LabelAt(place), key))
    /\ \A place \in places : ~FloatLess(x, DictGet(LabelAt(place), key))

\* x is the smallest of the values at the places
IsMinAt(x, places, key) ==
    /\ \E place \in places : FloatEq(x, DictGet(LabelAt(place), key))
    /\ \A place \in places : ~FloatLess(DictGet(LabelAt(place), key), x)

\* C18: calculate_overall_metrics returns, for every metric and every k of
\* k_values, avg_{metric}@{k} and max_{metric}@{k}: the mean and the largest
\* of the values stored under {metric}@{k} over the labels of all turns of
\* all dialogues that carry the key, and 0.0 for both when no label carries
\* it; dialogues without turns, turns without labels and labels without the
\* key raise nothing.
C18_OverallAverageAndMaximum ==
    (op = "calculate_overall_metrics" /\ data.type = "dict") =>
        /\ ~Raised(result)
        /\ \A metric \in {"ndcg", "precision", "recall"}, j \in 1..Len(k_values) :
            LET key == MetricKey(metric, k_values[j])
                places == PlacesWith(key)
                avg == DictGet(result.val, "avg_" \o key)
                max == DictGet(result.val, "max_" \o key)
            IN  IF places = {}
                THEN avg = Zero /\ max = Zero
                ELSE IsMeanAt(avg, places, key) /\ IsMaxAt(max, places, key)

\* the first dialogue has no turns, the second a turn without labels and a
\* turn with the two PTKB labels: ndcg@1 averages 0.75 over both, precision@1
\* is that of the one label carrying it, ndcg@3 has no value
C18_Witness ==
    /\ op = "calculate_overall_metrics"
    /\ k_values = <<1, 3>>
    /\ data.type = "dict"
    /\ Len(data.items) = 2
    /\ ~HasKey(data.items[1].val, "turns")
    /\ Len(TurnsOf(data.items[2].val)) = 2
    /\ ~HasKey(TurnsOf(data.items[2].val)[1], "labels")
    /\ DictGet(result.val, "avg_ndcg@1") = [num |-> 3, den |-> 4]
    /\ DictGet(result.val, "max_ndcg@1") = [num |-> 1, den |-> 1]
    /\ DictGet(result.val, "avg_precision@1") = [num |-> 1, den |-> 1]
    /\ DictGet(result.val, "avg_ndcg@3") = Zero
    /\ DictGet(result.val, "max_ndcg@3") = Zero

\* the places of the scored labels: those that carry a metric at some cutoff
ScoredPlaces ==
    {place \in LabelPlaces :
        DictKeys(LabelAt(place)) \cap RunMetricKeys([n \in 1..MaxK |-> n]) # {}}

\* C19: num_queries of calculate_overall_metrics is the number of evaluated
\* queries, the scored labels of the dataset, whatever metrics and cutoffs
\* were asked for.
C19_NumQueriesCountsScoredLabels ==
    (op = "calculate_overall_metrics" /\ data.type = "dict") =>
        DictGet(result.val, "num_queries") = Cardinality(ScoredPlaces)

\* label.get('responseType', 'unknown')
CategoryOf(label) ==
    IF HasKey(label, "responseType") THEN DictGet(label, "responseType") ELSE "unknown"

\* the sum of the squares of the values at the places
RECURSIVE SumSquaresAt(_, _)
SumSquaresAt(places, key) ==
    IF places = {} THEN Zero
    ELSE LET place == CHOOSE p \in places : TRUE
             x == DictGet(LabelAt(place), key)
         IN  FloatAdd(FloatMul(x, x), SumSquaresAt(places \ {place}, key))

\* v is the population variance of the values at the places: the mean of the
\* squares less the square of the mean
IsVarianceAt(v, places, key) ==
    LET n == Cardinality(places)
        total == SumAt(places, key)
        squares == SumSquaresAt(places, key)
        mean == Fraction(total.num, total.den * n)
    IN  FloatEq(v, FloatSub(Fraction(squares.num, squares.den * n), FloatMul(mean, mean)))

\* C20: calculate_metrics_by_response_type has one entry for every category
\* that occurs on a label, a label without responseType counting as
\* "unknown", and no other; for every metric@k key the entry holds avg, max,
\* min, std (of the population) and count of the values of the category's
\* labels that carry the key, and 0.0, 0.0, 0.0, 0.0 and 0 when none does.
C20_StatisticsByResponseType ==
    (op = "calculate_metrics_by_response_type" /\ data.type = "dict") =>
        /\ ~Raised(result)
        /\ DictKeys(result.val) = {CategoryOf(LabelAt(place)) : place \in LabelPlaces}
        /\ \A category \in DictKeys(result.val),
              metric \in {"ndcg", "precision", "recall"}, j \in 1..Len(k_values) :
            LET key == MetricKey(metric, k_values[j])
                places == {place \in PlacesWith(key) :
                              CategoryOf(LabelAt(place)) = category}
                statistics == DictGet(result.val, category)
                avg == DictGet(statistics, "avg_" \o key)
                max == DictGet(statistics, "max_" \o key)
                min == DictGet(statistics, "min_" \o key)
                std == DictGet(statistics, "std_" \o key)
                count == DictGet(statistics, "count_" \o key)
            IN  /\ count = Cardinality(places)
                /\ IF places = {}
                   THEN avg = Zero /\ max = Zero /\ min = Zero /\ std = Zero
                   ELSE /\ IsMeanAt(avg, places, key)
                        /\ IsMaxAt(max, places, key)
                        /\ IsMinAt(min, places, key)
                        /\ std = Sqrt(std.sqrt_of)
                        /\ IsVarianceAt(std.sqrt_of, places, key)

-----------------------------------------------------------------------------
(* The documents of a processed turn *)

\* the call returned a processed turn: one that carries retrieved_evidence
IsProcessedTurn ==
    /\ op = "_process_single_turn"
    /\ ~Raised(result)
    /\ HasKey(result.val, "retrieved_evidence")

-----------------------------------------------------------------------------
(* The gold id set *)

\* the other form of an evidence entry that names a passage: the bare string
\* for the dict, the dict for the bare string
SwitchForm(evidence) ==
    IF evidence.type = "str"
    THEN [type |-> "dict", fields |-> [passage_id |-> evidence.value]]
    ELSE IF "passage_id" \in DOMAIN evidence.fields
    THEN [type |-> "str", value |-> evidence.fields.passage_id]
    ELSE evidence

\* the gold lists made from gold by duplicating one entry, by switching the
\* form of one entry, or by adding one entry once more in its other form
GoldVariants(gold) ==
    UNION {{Append(gold, gold[i]),
            <<gold[i]>> \o gold,
            [gold EXCEPT ![i] = SwitchForm(gold[i])],
            Append(gold, SwitchForm(gold[i]))} : i \in 1..Len(gold)}

\* the call of the state, made with another gold list
SameCallWithGold(gold) ==
    CASE op = "calculate_precision_at_k" ->
             calculate_precision_at_k(retrieved_evidence, gold, k)
      [] op = "calculate_recall_at_k" ->
             calculate_recall_at_k(retrieved_evidence, gold, k)
      [] op = "calculate_ndcg" -> calculate_ndcg(retrieved_evidence, gold, k)

\* C22: the gold id set holds the bare strings of the evidence and the
\* passage_id fields of its dicts, every id once; so precision, recall and
\* nDCG are each the same when an evidence entry is duplicated, is switched
\* to its other form, or is given once more in its other form.
C22_GoldIdsFromBothForms ==
    op \in SingleMetricOps =>
        /\ _get_gold_ids(gold_evidence) = GoldIdSet
        /\ \A gold \in GoldVariants(gold_evidence) :
            /\ _get_gold_ids(gold) = GoldIdSet
            /\ SameCallWithGold(gold) = result

\* recall@2 is 1/2 for a gold list that names A as a string and as a dict,
\* and B
C22_Witness ==
    /\ op = "calculate_recall_at_k"
    /\ k = Some(2)
    /\ Len(gold_evidence) = 2
    /\ gold_evidence[1] = [type |-> "str", value |-> "A"]
    /\ gold_evidence[2] = [type |-> "dict", fields |-> [passage_id |-> "B"]]
    /\ Append(gold_evidence, [type |-> "dict", fields |-> [passage_id |-> "A"]])
           \in GoldVariants(gold_evidence)
    /\ result = Return([num |-> 1, den |-> 2])

-----------------------------------------------------------------------------
(* Precision and recall count the same hits *)

\* C26: for every retrieved list, every gold list with a non-empty id set
\* and every k > 0, precision@k * k = recall@k * |gold id set|: the two
\* functions count the same hits among the top k.
C26_PrecisionAndRecallCountSameHits ==
    (op = "calculate_precision_at_k" /\ GoldIdSet # {} /\ EffectiveK > 0) =>
        LET precision == result
            recall == calculate_recall_at_k(retrieved_evidence, gold_evidence, k)
        IN  /\ ~Raised(precision)
            /\ ~Raised(recall)
            /\ precision.val.num * EffectiveK * recall.val.den
                   = recall.val.num * Cardinality(GoldIdSet) * precision.val.den
            /\ precision.val.num * EffectiveK = Cardinality(HitRanks) * precision.val.den
            /\ recall.val.num * Cardinality(GoldIdSet)
                   = Cardinality(HitRanks) * recall.val.den

\* precision@1 of A, B against the gold A, B: one hit, though two gold
\* documents were retrieved
C26_Witness ==
    /\ op = "calculate_precision_at_k"
    /\ k = Some(1)
    /\ Len(retrieved_evidence) = 2
    /\ retrieved_evidence[1].passage_id = "A"
    /\ retrieved_evidence[2].passage_id = "B"
    /\ GoldIdSet = {"A", "B"}
    /\ result = Return([num |-> 1, den |-> 1])
    /\ calculate_recall_at_k(retrieved_evidence, gold_evidence, k)
           = Return([num |-> 1, den |-> 2])

-----------------------------------------------------------------------------
(* The order of a run of process_json_file *)

\* the places of the turns of a document: dialogue index and turn index
TurnPlaces(doc) ==
    {<<d, t>> \in (1..Len(doc.items)) \X (1..MaxTurns + 1) :
        t <= Len(TurnsOf(doc.items[d].val))}

\* the turn of a document at a place
TurnAt(doc, place) == TurnsOf(doc.items[place[1]].val)[place[2]]

\* the run is through the turn at the place: the loops have passed it
IsThrough(place) ==
    \/ pc.at = "done"
    \/ place[1] < pc.dialogue
    \/ place[1] = pc.dialogue /\ place[2] < pc.turn

\* C23: process_json_file goes through the file strictly in order. At every
\* point of a run the searches made so far are those of the turns with
\* resolvedQuery that the loops have passed, one each and in file order
\* (dialogues in key order, turns in list order), plus the one that raised if
\* the run was left by it; every turn passed holds its result in the dataset
\* and every turn not yet reached is as it was read, so a search is made only
\* when the results of all turns before it are stored; and the output file
\* exists only when the last turn of the last dialogue has been passed.
C23_StrictlySequential ==
    (pc.at \in {"turns", "raised", "done"} /\ files.input.type = "dict") =>
        LET input == files.input
            passed == {place \in SearchedPlaces(input) : IsThrough(place)}
            attempted == passed \cup (IF pc.at = "raised"
                                      THEN {<<pc.dialogue, pc.turn>>} ELSE {})
        IN  /\ data.type = "dict"
            /\ Len(data.items) = Len(input.items)
            /\ TurnPlaces(data) = TurnPlaces(input)
            /\ Len(calls) = Cardinality(attempted)
            /\ \A place \in attempted :
                LET n == SearchNumber(input, place[1], place[2])
                IN  /\ n \in 1..Len(calls)
                    /\ calls[n].query
                           = _preprocess_query(DictGet(TurnAt(input, place), query_key))
                    /\ Raised(calls[n].answer) <=> (pc.at = "raised" /\ n = Len(calls))
            /\ \A place \in TurnPlaces(input) :
                IF IsThrough(place) /\ HasKey(TurnAt(input, place), query_key)
                THEN /\ HasKey(TurnAt(data, place), "retrieved_evidence")
                     /\ DictGet(TurnAt(data, place), "retrieved_evidence")
                            = calls[SearchNumber(input, place[1], place[2])].answer.val
                ELSE TurnAt(data, place) = TurnAt(input, place)
            /\ (files.output # <<>>) <=> (pc.at = "done")
            /\ pc.at = "done" => files.output = <<data>>

\* a run between two turns: the first dialogue's turn is searched and stored,
\* the second dialogue's first turn needed no search, its second turn is
\* still to be searched, and no output exists
C23_Witness ==
    /\ pc = At("turns", 2, 2)
    /\ Len(calls) = 1
    /\ Len(data.items) = 2
    /\ Len(TurnsOf(data.items[1].val)) = 1
    /\ Len(TurnsOf(data.items[2].val)) = 2
    /\ HasKey(TurnAt(data, <<1, 1>>), "retrieved_evidence")
    /\ ~HasKey(TurnAt(data, <<2, 1>>), query_key)
    /\ HasKey(TurnAt(data, <<2, 2>>), query_key)
    /\ ~HasKey(TurnAt(data, <<2, 2>>), "retrieved_evidence")
    /\ files.output = <<>>

-----------------------------------------------------------------------------
(* Structural errors *)

\* C24: when the top-level JSON value is not a mapping, process_json_file,
\* calculate_overall_metrics and calculate_metrics_by_response_type each
\* raise ValueError, and process_json_file does so before it processes a turn,
\* makes a search or writes an output file; a dialogue without turns is
\* nothing to do: it is left as it is and nothing is raised for it.
C24_StructuralErrors ==
    /\ (op = "process_json_file" /\ pc.at # "load") =>
          IF files.input.type # "dict"
          THEN /\ pc.at = "raised"
               /\ result = Raise("ValueError")
               /\ data = files.input
               /\ calls = <<>>
               /\ files.output = <<>>
          ELSE /\ result.exc # "ValueError"
               /\ pc.at = "raised" =>
                      /\ calls # <<>>
                      /\ result = calls[Len(calls)].answer
                      /\ HasKey(TargetData(pc.dialogue), "turns")
               /\ \A d \in 1..Len(files.input.items) :
                      ~HasKey(files.input.items[d].val, "turns") =>
                          data.items[d] = files.input.items[d]
    /\ op \in {"calculate_overall_metrics", "calculate_metrics_by_response_type"} =>
          IF data.type # "dict"
          THEN result = Raise("ValueError")
          ELSE ~Raised(result)

\* process_json_file has raised ValueError on a file that holds a list of one
\* dialogue with a turn to search
C24_Witness ==
    /\ op = "process_json_file"
    /\ pc.at = "raised"
    /\ files.input.type = "list"
    /\ Len(files.input.items) = 1
    /\ HasKey(TurnsOf(files.input.items[1])[1], query_key)
    /\ result = Raise("ValueError")
    /\ calls = <<>>
    /\ files.output = <<>>

-----------------------------------------------------------------------------
(* Aggregation reads only *)

\* C25: calculate_overall_metrics and calculate_metrics_by_response_type
\* leave the dataset given to them as it was loaded (no dialogue, turn, label
\* or field added, removed or changed), so a report does not depend on the
\* calls made before it: each function's report is the same whether it is
\* called first, after the other function, or a second time.
C25_AggregationReadsOnly ==
    LET loaded == files.output[1]
    IN  /\ data = loaded
        /\ op \in ReportFunctions => result = Report(op, loaded, k_values)
        /\ result2 # NoResult =>
              LET first == Report(result2.op, loaded, k_values)
              IN  /\ result2.exc = first.exc
                  /\ result2.val = first.val
                  /\ result2.op = op => (result2.exc = result.exc /\ result2.val = result.val)

\* the by-type report was made after the overall report on a dataset with
\* scored labels, and the dataset is still as loaded
C25_Witness ==
    /\ op = "calculate_overall_metrics"
    /\ result2 # NoResult
    /\ result2.op = "calculate_metrics_by_response_type"
    /\ ~Raised(result2)
    /\ HasKey(result2.val, "PTKB")
    /\ DictGet(DictGet(result2.val, "PTKB"), "count_ndcg@1") = 2
    /\ DictGet(result.val, "num_queries") > 0
    /\ data = files.output[1]

-----------------------------------------------------------------------------
(* The fields of a processed turn *)

\* the keys of a dict in their order
KeyList(d) == [i \in 1..Len(d) |-> d[i].key]

\* C27: a turn that has resolvedQuery comes out of _process_single_turn with
\* exactly the keys query (if the input had it), resolvedQuery,
\* retrieved_evidence and labels (if the input had it), in that order; every
\* other field of the input turn, such as context, is absent
C27_ProcessedTurnKeys ==
    (/\ op = "_process_single_turn"
     /\ result.exc = ""
     /\ HasKey(turn, "resolvedQuery"))
    => /\ KeyList(result.val) =
              (IF HasKey(turn, "query") THEN <<"query">> ELSE <<>>)
              \o <<"resolvedQuery", "retrieved_evidence">>
              \o (IF HasKey(turn, "labels") THEN <<"labels">> ELSE <<>>)
       /\ ~HasKey(result.val, "context")

\* a turn with context, query, resolvedQuery and labels was processed
C27_Witness ==
    /\ op = "_process_single_turn"
    /\ result.exc = ""
    /\ KeyList(turn) = <<"context", "query", "resolvedQuery", "labels">>
    /\ KeyList(result.val) = <<"query", "resolvedQuery", "retrieved_evidence", "labels">>
    /\ calculate_ndcg_arg
    /\ Len(DictGet(result.val, "retrieved_evidence")) = MaxHits

-----------------------------------------------------------------------------
(* A second pass over a processed dialogue *)

\* C28: when the backend returns the same result for the same query, a second
\* _process_turns with the same k_values and calculate_ndcg on a processed
\* dialogue leaves every turn (fields, field order, retrieved_evidence and
\* label metric values) equal to the result of the first pass
C28_SecondPassIdempotent ==
    (/\ op = "_process_turns"
     /\ ~Raised(result.outcome)
     /\ result2 # NoResult)
    => /\ ~Raised(result2.outcome)
       /\ result2.target_data = result.target_data
       /\ data = result.target_data

\* both passes went over two turns, one of them with labels that were scored
C28_Witness ==
    /\ op = "_process_turns"
    /\ ~Raised(result.outcome)
    /\ result2 # NoResult
    /\ calculate_ndcg_arg
    /\ Len(calls) = 4
    /\ calls[1].query # calls[2].query
    /\ Len(calls[2].answer.val) = 2
    /\ HasKey(DictGet(data, "turns")[2], "labels")
    /\ HasKey(DictGet(DictGet(data, "turns")[2], "labels")[1], "recall@1")

-----------------------------------------------------------------------------
(* The two reports against each other *)

\* the sum of the count fields of the report by response type, fields being
\* pairs of a category and a metric@k key
RECURSIVE SumCounts(_, _)
SumCounts(by_type, fields) ==
    IF fields = {} THEN 0
    ELSE LET field == CHOOSE f \in fields : TRUE
         IN  DictGet(DictGet(by_type, field[1]), "count_" \o field[2])
             + SumCounts(by_type, fields \ {field})

\* C29: the category grouping partitions the overall observations: num_queries
\* of calculate_overall_metrics equals the sum, over all categories and all
\* metric@k keys, of the count fields of calculate_metrics_by_response_type,
\* the number of (label, metric@k key) pairs present in the dataset
C29_CountsPartitionNumQueries ==
    (op = "calculate_overall_metrics" /\ data.type = "dict") =>
        LET by_type == calculate_metrics_by_response_type(data, k_values).val
            keys == RunMetricKeys(k_values)
            num_queries == DictGet(result.val, "num_queries")
        IN  /\ num_queries = SumCounts(by_type, DictKeys(by_type) \X keys)
            /\ num_queries = Cardinality({pair \in LabelPlaces \X keys :
                                             HasKey(LabelAt(pair[1]), pair[2])})

-----------------------------------------------------------------------------
(* A dialogue whose processing failed *)

\* the indices of the turns of the input dialogue d that have no context
TurnsWithoutContext(d) ==
    {j \in 1..Len(TurnsOf(files.input.items[d].val)) :
        ~HasKey(TurnsOf(files.input.items[d].val)[j], "context")}

\* the dialogues of the range of the run in which process_dialogue raised at
\* a turn
FailedDialogues ==
    {d \in 1..Len(files.input.items) :
        /\ index_range.start_index < d
        /\ d <= EndIndex
        /\ TurnsWithoutContext(d) # {}}

\* C30: when process_dialogue raises at turn j of a dialogue, the dataset
\* process_data returns still contains that dialogue, with the turns before j
\* carrying their new query and resolvedQuery fields and the turns from j on
\* untouched: the partial mutation is not rolled back
C30_PartialMutationVisible ==
    (op = "process_data" /\ pc.at = "done") =>
        \A d \in FailedDialogues :
            LET j == CHOOSE n \in TurnsWithoutContext(d) :
                         \A m \in TurnsWithoutContext(d) : n <= m
                before == TurnsOf(files.input.items[d].val)
                after == TurnsOf(result.val.items[d].val)
            IN  /\ result.val.items[d].key = files.input.items[d].key
                /\ Len(after) = Len(before)
                /\ \A i \in 1..(j - 1) :
                      /\ HasKey(after[i], "resolvedQuery")
                      /\ HasKey(after[i], "query")
                      /\ DictGet(after[i], "query") =
                             (IF DictGet(before[i], "context") = <<>> THEN <<>>
                              ELSE DictGet(before[i], "context")[
                                       Len(DictGet(before[i], "context"))])
                      /\ DictGet(after[i], "context") = DictGet(before[i], "context")
                /\ \A i \in j..Len(before) : after[i] = before[i]

\* the first dialogue failed at its second turn: the first turn was rewritten
C30_Witness ==
    /\ op = "process_data"
    /\ pc.at = "done"
    /\ 1 \in FailedDialogues
    /\ TurnsWithoutContext(1) = {2}
    /\ DictGet(TurnsOf(result.val.items[1].val)[1], "query") = <<"c", "a", "t", "?">>
    /\ DictGet(TurnsOf(result.val.items[1].val)[1], "resolvedQuery") = <<"c", "a", "t", "s">>
    /\ ~HasKey(TurnsOf(result.val.items[1].val)[2], "query")
    /\ log # <<>>

====
